---- MODULE Spec2Model ----
(***************************************************************************)
(* The spectral analysis session of the Analysis component                 *)
(* (frontend/src/components/SpectrumViewer.tsx) and the pure algorithms it *)
(* calls (frontend/src/utils/analysisAlgorithms.ts).                       *)
(*                                                                         *)
(* Numbers.  The code computes in IEEE doubles; the model computes in      *)
(* integers on a fixed-point grid:                                         *)
(*   - x values are multiples of 0.0025, and every sample x is an even     *)
(*     multiple, so that the trapezoid term (y[i]+y[i+1])/2 * dx is exact; *)
(*     the click tolerance 0.01 of the code is Tol = 4 grid steps;         *)
(*   - y values are integers; absorbance <-> transmittance rounds its      *)
(*     result to the nearest integer (ModeA2T, ModeT2A).                   *)
(* Optional fields (TypeScript `?:`) are sequences: <<>> is undefined and  *)
(* <<v>> is the value v.  Indices are 1-based here and 0-based in the code.*)
(***************************************************************************)
EXTENDS Integers, Sequences, FiniteSets, TLC

VARIABLES
  spectrum,                   \* location.state.spectrum: technique, wavelengths, intensities
  processedData,              \* useState processedData {x, y}
  originalData,               \* useState originalData {x, y}
  processedDataRef,           \* useRef processedDataRef.current
  baselinePoints,             \* useState baselinePoints
  detectedPeaks,              \* useState detectedPeaks
  selectedPeakForBoundaries,  \* useState selectedPeakForBoundaries (<<>> is null)
  boundaryAdjustmentStep,     \* useState boundaryAdjustmentStep ("start", "end", "null")
  dataMode,                   \* useState dataMode
  hasUnsavedChanges,          \* useState hasUnsavedChanges
  savedAnalyses,              \* useState savedAnalyses: method key -> <<>> or <<record id>>
  recalcTimers,               \* pending setTimeout(.., 50) callbacks of handlePlotClick
  noticePending,              \* a setTimeout(.., 100) callback (completion message) is pending
  loadPending,                \* the 500 ms timer / request of loadSavedAnalysisResults is outstanding
  db,                         \* the persistence collaborator: analysis records of this spectrum
  clock,                      \* Date.now(), as far as manual peak ids read it
  opens,                      \* how often the spectrum has been opened (bounded)
  isProcessing,               \* useState: isProcessing
  exportedCSV,                \* the rows of the file last handed to the browser (<<>>: none)
  baselineParams,             \* useState baselineParams: iterations, useSimplified
  lastOp                      \* the step of the boundary adjustment that produced this state
                              \* ("other" after every other handler)

vars == <<spectrum, processedData, originalData, processedDataRef, baselinePoints,
          detectedPeaks, selectedPeakForBoundaries, boundaryAdjustmentStep, dataMode,
          hasUnsavedChanges, savedAnalyses, recalcTimers, noticePending, loadPending,
          db, clock, opens, isProcessing, exportedCSV,
          baselineParams, lastOp>>

----------------------------------------------------------------------------
(* Bounds of the model *)

\* re-opens of the spectrum after the first open
MaxReopens == 1
\* manual peaks added by clicking (each reads a later Date.now())
MaxManualPeaks == 1
\* manual baseline points the session places
MaxBaselinePoints == 2
\* analysis records the collaborator may hold per method
MaxRecords == 2
\* largest intensity of the spectra the area calculators are applied to
MaxIntensity == 2

----------------------------------------------------------------------------
(* Plain helpers *)

Abs(a) == IF a < 0 THEN -a ELSE a
Min2(a, b) == IF a < b THEN a ELSE b
Max2(a, b) == IF a > b THEN a ELSE b
SeqMax(s) == CHOOSE m \in {s[i] : i \in 1..Len(s)} : \A i \in 1..Len(s) : s[i] <= m
SeqMin(s) == CHOOSE m \in {s[i] : i \in 1..Len(s)} : \A i \in 1..Len(s) : s[i] >= m
Reverse(s) == [i \in 1..Len(s) |-> s[Len(s) + 1 - i]]

Undefined == <<>>
Some(v) == <<v>>
IsDefined(o) == o # <<>>
Val(o) == o[1]
\* JavaScript truthiness of an optional number: undefined and 0 are falsy
Truthy(o) == o # <<>> /\ o[1] # 0
\* `a || b` on an optional number a and a number b
OrElse(o, b) == IF Truthy(o) THEN o[1] ELSE b

\* Math.abs(x - start) < 0.01, on the grid
Tol == 4

----------------------------------------------------------------------------
(* analysisAlgorithms.ts: absorbance <-> transmittance *)

\* %T = 10^(-clamp(A, 0, 10)) * 100, rounded to the nearest integer
ModeA2T(a) ==
  LET clampedA == Max2(0, Min2(10, a))
  IN  IF clampedA = 0 THEN 100
      ELSE IF clampedA = 1 THEN 10
      ELSE IF clampedA = 2 THEN 1
      ELSE 0

\* A = -log10(clamp(T, 0.01, 100) / 100), rounded to the nearest integer:
\* A rounds to 0 when T^2 > 1000, to 1 when T^2 > 10, to 2 for T in 1..3,
\* and T <= 0 is clamped to 0.01, where A = 4
ModeT2A(t) ==
  IF t >= 100 THEN 0
  ELSE IF t <= 0 THEN 4
  ELSE IF t * t > 1000 THEN 0
  ELSE IF t * t > 10 THEN 1
  ELSE 2

convertAbsorbanceTransmittance(yData, fromMode, toMode) ==
  IF fromMode = toMode THEN yData
  ELSE IF fromMode = "absorbance" /\ toMode = "transmittance"
       THEN [i \in 1..Len(yData) |-> ModeA2T(yData[i])]
  ELSE IF fromMode = "transmittance" /\ toMode = "absorbance"
       THEN [i \in 1..Len(yData) |-> ModeT2A(yData[i])]
  ELSE yData

ModeTechniques == {"uv-vis", "uv", "vis", "ir", "infrared"}

\* the characters of the lower-case strings the mode detection reads:
\* technique names, and values of the YUNITS and data-type metadata fields
Spelling(s) ==
  CASE s = "ir" -> <<"i", "r">>
    [] s = "infrared" -> <<"i", "n", "f", "r", "a", "r", "e", "d">>
    [] s = "uv-vis" -> <<"u", "v", "-", "v", "i", "s">>
    [] s = "uv" -> <<"u", "v">>
    [] s = "vis" -> <<"v", "i", "s">>
    [] s = "raman" -> <<"r", "a", "m", "a", "n">>
    [] s = "libs" -> <<"l", "i", "b", "s">>
    [] s = "transmittance" ->
         <<"t", "r", "a", "n", "s", "m", "i", "t", "t", "a", "n", "c", "e">>
    [] s = "transmission" ->
         <<"t", "r", "a", "n", "s", "m", "i", "s", "s", "i", "o", "n">>
    [] s = "%t" -> <<"%", "t">>
    [] s = "t" -> <<"t">>
    [] s = "absorbance" -> <<"a", "b", "s", "o", "r", "b", "a", "n", "c", "e">>
    [] s = "absorption" -> <<"a", "b", "s", "o", "r", "p", "t", "i", "o", "n">>
    [] s = "a" -> <<"a">>
    [] s = "counts" -> <<"c", "o", "u", "n", "t", "s">>
    [] s = "" -> <<>>

\* String.prototype.includes
Includes(text, part) ==
  \E k \in 0..(Len(text) - Len(part)) : SubSeq(text, k + 1, k + Len(part)) = part


\* detectDataMode without metadata: the value-range heuristic, then the
\* technique default (avg > 50 is sum > 50 n, avg < 2 is sum < 2 n)
RECURSIVE SeqSum(_)
SeqSum(s) == IF s = <<>> THEN 0 ELSE s[1] + SeqSum(Tail(s))

detectDataMode(yData, technique) ==
  LET maxVal == SeqMax(yData)
      minVal == SeqMin(yData)
      n == Len(yData)
  IN  IF technique \in ModeTechniques /\ maxVal <= 100 /\ minVal >= 0 /\ SeqSum(yData) > 50 * n
        THEN "transmittance"
      ELSE IF technique \in ModeTechniques /\ maxVal <= 5 /\ minVal >= 0 /\ SeqSum(yData) < 2 * n
        THEN "absorbance"
      ELSE IF technique \in ModeTechniques /\ maxVal > 100
        THEN "transmittance"
      ELSE IF Includes(Spelling(technique), <<"i", "r">>) THEN "transmittance"
      ELSE "absorbance"

----------------------------------------------------------------------------
(* analysisAlgorithms.ts: polynomialBaselineCorrection, degree > 1.        *)
(* windowSize = max(10, floor(n / 50)); for n <= 10 there is one window,   *)
(* one anchor (the first minimum), leftI = rightI, so baseline[i] = y[min].*)

polynomialBaselineCorrection(x, y) ==
  LET n == Len(y)
      minVal == SeqMin(y)
      baseline == [i \in 1..n |-> minVal]
  IN  [baseline |-> baseline,
       corrected |-> [i \in 1..n |-> Max2(0, y[i] - baseline[i])]]

----------------------------------------------------------------------------
(* A stable sort, as Array.prototype.sort with the comparator              *)
(* (a, b) => key(a) - key(b): keys[i] is the key of s[i]                    *)

StableSort(s, keys) ==
  LET n == Len(s)
      rank(i) == 1 + Cardinality({j \in 1..n :
                        keys[j] < keys[i] \/ (keys[j] = keys[i] /\ j < i)})
  IN  [k \in 1..n |-> s[CHOOSE i \in 1..n : rank(i) = k]]

----------------------------------------------------------------------------
(* analysisAlgorithms.ts: detectPeaks.  prominence, threshold and          *)
(* relativeThreshold are fractions in the code and percentages here.       *)

\* valleys whatever the technique and the mode
shouldDetectValleys_Always(technique, mode) == TRUE
\* detectValleys is never passed by the component: valleys by technique and mode
shouldDetectValleys(technique, mode) ==
  mode = "transmittance" /\ technique \in ModeTechniques

\* for (j = i - 1; j >= 0; j--): the surrounding minimum (maximum for valleys)
RECURSIVE ScanLeft(_, _, _, _, _, _)
ScanLeft(y, j, currentY, ext, base, valleys) ==
  IF j < 1 THEN [ext |-> ext, base |-> base]
  ELSE LET better == IF valleys THEN y[j] > ext ELSE y[j] < ext
           ext2 == IF better THEN y[j] ELSE ext
           base2 == IF better THEN j ELSE base
           stop == IF valleys THEN y[j] < currentY ELSE y[j] > currentY
       IN  IF stop THEN [ext |-> ext2, base |-> base2]
           ELSE ScanLeft(y, j - 1, currentY, ext2, base2, valleys)

\* for (j = i + 1; j < n; j++)
RECURSIVE ScanRight(_, _, _, _, _, _)
ScanRight(y, j, currentY, ext, base, valleys) ==
  IF j > Len(y) THEN [ext |-> ext, base |-> base]
  ELSE LET better == IF valleys THEN y[j] > ext ELSE y[j] < ext
           ext2 == IF better THEN y[j] ELSE ext
           base2 == IF better THEN j ELSE base
           stop == IF valleys THEN y[j] < currentY ELSE y[j] > currentY
       IN  IF stop THEN [ext |-> ext2, base |-> base2]
           ELSE ScanRight(y, j + 1, currentY, ext2, base2, valleys)

\* y[j] is at or beyond the half level (currentY + ref) / 2
CrossesHalf(yj, currentY, ref, valleys) ==
  IF valleys THEN 2 * yj >= currentY + ref ELSE 2 * yj <= currentY + ref

\* One pass of the for loop at index i (1-based): <<>> when the sample is
\* skipped, <<peak>> when it is pushed
DetectCandidate(x, y, i, peaks, params, valleys) ==
  LET n == Len(y)
      maxIntensity == SeqMax(y)
      minIntensity == SeqMin(y)
      intensityRange == maxIntensity - minIntensity
      \* absoluteThreshold * 100
      absThr100 == Max2(params.threshold, params.relativeThreshold * maxIntensity)
      currentY == y[i]
      gated == IF valleys THEN 100 * currentY > 100 * maxIntensity - absThr100
                          ELSE 100 * currentY < absThr100
      isExtremum == IF valleys THEN currentY < y[i - 1] /\ currentY < y[i + 1]
                               ELSE currentY > y[i - 1] /\ currentY > y[i + 1]
      left == ScanLeft(y, i - 1, currentY, currentY, i, valleys)
      right == ScanRight(y, i + 1, currentY, currentY, i, valleys)
      ref == IF valleys THEN Min2(left.ext, right.ext) ELSE Max2(left.ext, right.ext)
      peakProminence == IF valleys THEN ref - currentY ELSE currentY - ref
      leftSet == {j \in left.base..(i - 1) : CrossesHalf(y[j], currentY, ref, valleys)}
      rightSet == {j \in (i + 1)..right.base : CrossesHalf(y[j], currentY, ref, valleys)}
      leftHalf == IF leftSet = {} THEN i
                  ELSE CHOOSE j \in leftSet : \A k \in leftSet : k <= j
      rightHalf == IF rightSet = {} THEN i
                   ELSE CHOOSE j \in rightSet : \A k \in rightSet : k >= j
      peakWidth == rightHalf - leftHalf
      \* x.findIndex(xVal => Math.abs(xVal - peak.x) < Number.EPSILON)
      indexOf(px) == CHOOSE j \in 1..n : x[j] = px /\ \A k \in 1..(j - 1) : x[k] # px
      tooClose == \E q \in 1..Len(peaks) : Abs(i - indexOf(peaks[q].x)) < params.distance
  IN  IF gated \/ ~isExtremum THEN <<>>
      ELSE IF 100 * peakProminence < params.prominence * intensityRange THEN <<>>
      ELSE IF peakWidth < params.width THEN <<>>
      ELSE IF tooClose THEN <<>>
      ELSE << [id |-> <<"peak", Len(peaks), i - 1>>,
               x |-> x[i],
               y |-> currentY,
               prominence |-> peakProminence,
               width |-> peakWidth,
               leftBase |-> x[left.base],
               rightBase |-> x[right.base]] >>

\* for (let i = 1; i < n - 1; i++)
RECURSIVE DetectLoop(_, _, _, _, _, _)
DetectLoop(x, y, i, peaks, params, valleys) ==
  IF i > Len(y) - 1 THEN peaks
  ELSE DetectLoop(x, y, i + 1,
                  peaks \o DetectCandidate(x, y, i, peaks, params, valleys),
                  params, valleys)

\* peaks.sort((a, b) => b.prominence - a.prominence)
ByProminence(peaks) ==
  StableSort(peaks, [i \in 1..Len(peaks) |-> 0 - peaks[i].prominence])

\* detectPeaks without the prominence and width requirements
detectPeaks_NoMinimum(x, y, params, technique, mode) ==
  IF Len(x) # Len(y) \/ Len(x) < 3 THEN <<>>
  ELSE ByProminence(DetectLoop(x, y, 2, <<>>,
                               [params EXCEPT !.prominence = 0, !.width = 0],
                               shouldDetectValleys(technique, mode)))

detectPeaks(x, y, params, technique, mode) ==
  IF Len(x) # Len(y) \/ Len(x) < 3 THEN <<>>
  ELSE ByProminence(DetectLoop(x, y, 2, <<>>, params,
                               shouldDetectValleys(technique, mode)))

----------------------------------------------------------------------------
(* analysisAlgorithms.ts: detectPeaksSimplified.  prominence is a          *)
(* percentage here; x is on the grid of 0.0025, so 1.0 is 400.             *)

\* One pass of the for loop at index i (1-based)
SimplifiedCandidate(x, y, i, peaks, params, valleys) ==
  LET n == Len(y)
      w == params.windowSize
      intensityRange == SeqMax(y) - SeqMin(y)
      currentY == y[i]
      isLocalExtremum ==
        \A j \in (i - w)..(i + w) :
          j # i => IF valleys THEN y[j] > currentY ELSE y[j] < currentY
      leftSlice == SubSeq(y, Max2(1, i - 2 * w), i - 1)
      rightSlice == SubSeq(y, i + 1, Min2(n, i + 2 * w))
      localProminence ==
        IF valleys THEN Min2(SeqMax(leftSlice), SeqMax(rightSlice)) - currentY
                   ELSE currentY - Max2(SeqMin(leftSlice), SeqMin(rightSlice))
      tooClose == \E q \in 1..Len(peaks) : Abs(peaks[q].x - x[i]) < 400 * params.distance
  IN  IF ~isLocalExtremum THEN <<>>
      ELSE IF 100 * localProminence < params.prominence * intensityRange THEN <<>>
      ELSE IF tooClose THEN <<>>
      ELSE << [id |-> <<"peak", Len(peaks), i - 1>>,
               x |-> x[i],
               y |-> currentY,
               prominence |-> localProminence] >>

\* for (let i = windowSize; i < n - windowSize; i++)
RECURSIVE SimplifiedLoop(_, _, _, _, _, _)
SimplifiedLoop(x, y, i, peaks, params, valleys) ==
  IF i > Len(y) - params.windowSize THEN peaks
  ELSE SimplifiedLoop(x, y, i + 1,
                      peaks \o SimplifiedCandidate(x, y, i, peaks, params, valleys),
                      params, valleys)

detectPeaksSimplified(x, y, params, technique, mode) ==
  IF Len(x) # Len(y) \/ Len(x) < params.windowSize * 2 + 1 THEN <<>>
  ELSE ByProminence(SimplifiedLoop(x, y, params.windowSize + 1, <<>>, params,
                                   shouldDetectValleys(technique, mode)))

\* Math.max(...y) passes every sample as an argument and raises a RangeError
\* when there are more than the engine takes, which depends on the stack in
\* use at the call: it can raise on data longer than SpreadLimit (the limit,
\* scaled to the spectra of the model), and only once the length test has
\* let the data through
SpreadLimit == 6
\* a spread that is reached before the length test
MaxSpreadMayRaise_Unguarded(x, y, minLength) == Len(y) > SpreadLimit
MaxSpreadMayRaise(x, y, minLength) ==
  Len(x) = Len(y) /\ Len(x) >= minLength /\ Len(y) > SpreadLimit

----------------------------------------------------------------------------
(* SpectrumViewer.tsx: the two area calculators *)

\* for (i = startIndex; i < endIndex; i++) area += (y[i] + y[i+1]) / 2 * (x[i+1] - x[i])
RECURSIVE TrapezoidSum(_, _, _, _)
TrapezoidSum(x, y, i, endIndex) ==
  IF i >= endIndex THEN 0
  ELSE (IF i + 1 <= Len(x) THEN ((y[i] + y[i + 1]) * (x[i + 1] - x[i])) \div 2 ELSE 0)
       + TrapezoidSum(x, y, i + 1, endIndex)

\* for (i = 0; i < n; i++) if (x[i] >= v) { index = i; break; }, else the preset
FirstAtLeast(x, v, preset) ==
  IF \E i \in 1..Len(x) : x[i] >= v
    THEN CHOOSE i \in 1..Len(x) : x[i] >= v /\ \A j \in 1..(i - 1) : x[j] < v
    ELSE preset
FirstAtMost(x, v, preset) ==
  IF \E i \in 1..Len(x) : x[i] <= v
    THEN CHOOSE i \in 1..Len(x) : x[i] <= v /\ \A j \in 1..(i - 1) : x[j] > v
    ELSE preset
\* for (i = n - 1; i >= 0; i--) if (x[i] <= v) { index = i; break; }, else the preset
LastAtMost(x, v, preset) ==
  IF \E i \in 1..Len(x) : x[i] <= v
    THEN CHOOSE i \in 1..Len(x) : x[i] <= v /\ \A j \in (i + 1)..Len(x) : x[j] > v
    ELSE preset
LastAtLeast(x, v, preset) ==
  IF \E i \in 1..Len(x) : x[i] >= v
    THEN CHOOSE i \in 1..Len(x) : x[i] >= v /\ \A j \in (i + 1)..Len(x) : x[j] < v
    ELSE preset

\* if (startIndex >= endIndex) widen by one index on each side where possible
WidenRange(startIndex, endIndex, n) ==
  IF startIndex >= endIndex
    THEN [startIndex |-> IF startIndex > 1 THEN startIndex - 1 ELSE startIndex,
          endIndex |-> IF endIndex < n THEN endIndex + 1 ELSE endIndex]
    ELSE [startIndex |-> startIndex, endIndex |-> endIndex]

\* calculatePeakArea: the index search for explicit boundaries (no direction test)
ExplicitIndices(x, integrationStart, integrationEnd) ==
  WidenRange(FirstAtLeast(x, integrationStart, 1),
             LastAtMost(x, integrationEnd, Len(x)), Len(x))

\* calculatePeakArea(peak, undefined, true) on the data the callback closed over
calculatePeakArea(peak, data) ==
  LET x == data.x
      y == data.y
      n == Len(x)
      none == [area |-> 0, startX |-> 0, endX |-> 0]
      explicit == IsDefined(peak.integrationStart) /\ IsDefined(peak.integrationEnd)
      hits == {i \in 1..n : Abs(x[i] - peak.x) < Tol}
      peakIndex == CHOOSE i \in hits : \A j \in hits : i <= j
      integrationWidth == IF IsDefined(peak.width) /\ Val(peak.width) > 0
                            THEN Max2(Val(peak.width) * 2, 5) ELSE 10
      range == IF explicit
                 THEN ExplicitIndices(x, Val(peak.integrationStart), Val(peak.integrationEnd))
                 ELSE [startIndex |-> Max2(1, peakIndex - integrationWidth),
                       endIndex |-> Min2(n, peakIndex + integrationWidth)]
  IN  IF n = 0 \/ Len(y) = 0 THEN none
      ELSE IF ~explicit /\ hits = {} THEN none
      ELSE IF range.startIndex >= range.endIndex \/ range.startIndex < 1 \/ range.endIndex > n
        THEN none
      ELSE [area |-> Abs(TrapezoidSum(x, y, range.startIndex, range.endIndex)),
            startX |-> x[range.startIndex],
            endX |-> x[range.endIndex]]

\* recalculateIntegrationForPeak: the index search, with its direction test
RecalcIndices(x, integrationStart, integrationEnd) ==
  LET n == Len(x)
      isAscending == x[1] < x[n]
      hi == Max2(integrationStart, integrationEnd)
      lo == Min2(integrationStart, integrationEnd)
  IN  IF isAscending
        THEN WidenRange(FirstAtLeast(x, integrationStart, 1),
                        LastAtMost(x, integrationEnd, n), n)
        ELSE WidenRange(FirstAtMost(x, hi, 1), LastAtLeast(x, lo, n), n)

\* recalculateIntegrationForPeak: newArea of one peak over the data of the ref
RecalcArea(data, integrationStart, integrationEnd) ==
  LET range == RecalcIndices(data.x, integrationStart, integrationEnd)
  IN  Abs(TrapezoidSum(data.x, data.y, range.startIndex, range.endIndex))

----------------------------------------------------------------------------
(* The session: data it is opened on *)

\* Spectra the session is opened on (no XUNITS metadata, so x is taken as it is):
\* an ascending axis with one peak and a descending axis with one valley.
\* Two samples of the ascending axis lie closer together than the click tolerance.
Spectra ==
  { [technique |-> "raman", wavelengths |-> <<-2, 0, 8>>,
     intensities |-> <<1, 5, 1>>],
    [technique |-> "ir", wavelengths |-> <<16, 8, 0>>,
     intensities |-> <<100, 0, 100>>] }

\* peakParams as the sliders can set them (prominence and thresholds in percent)
PeakParamChoices ==
  { [prominence |-> 5, width |-> 2, distance |-> 5, threshold |-> 1, relativeThreshold |-> 1],
    [prominence |-> 5, width |-> 1, distance |-> 1, threshold |-> 1, relativeThreshold |-> 1] }

Methods == {"baseline_correction", "peak_detection", "peak_integration"}
\* the key saveAllAnalysisResults uses for a method
CamelKey(m) ==
  IF m = "baseline_correction" THEN "baselineCorrection"
  ELSE IF m = "peak_detection" THEN "peakDetection" ELSE "peakIntegration"
SavedKeys == Methods \cup {CamelKey(m) : m \in Methods}

\* useState(() => ({method: 'als', lambda, p: 0.01, iterations: 10, useSimplified: false}));
\* method, lambda and p do not enter the model
DefaultBaselineParams == [iterations |-> 10, useSimplified |-> FALSE]

\* interface Peak
NewPeak(id, x, y, width, prominence) ==
  [id |-> id, x |-> x, y |-> y, width |-> width, prominence |-> prominence,
   integrationArea |-> Undefined, integrationStart |-> Undefined,
   integrationEnd |-> Undefined, manuallyAdjusted |-> Undefined]

\* technique.toLowerCase().includes('ir') || ...includes('infrared')
IsIR(technique) == technique \in {"ir", "infrared"}

\* the peak table sorts detectedPeaks in place on every render
RenderSort(peaks, technique) ==
  IF IsIR(technique)
    THEN StableSort(peaks, [i \in 1..Len(peaks) |-> 0 - peaks[i].x])
    ELSE StableSort(peaks, [i \in 1..Len(peaks) |-> peaks[i].x])

HasBoundaries(peak) == IsDefined(peak.integrationStart) /\ IsDefined(peak.integrationEnd)
PeakIds(peaks) == {peaks[i].id : i \in 1..Len(peaks)}
\* detectedPeaks.find(p => p.id === id), where it finds one
PeakById(peaks, id) ==
  peaks[CHOOSE i \in 1..Len(peaks) : peaks[i].id = id /\ \A j \in 1..(i - 1) : peaks[j].id # id]

OpenedOn(sp, store, n) ==
  /\ spectrum = sp
  /\ processedData = [x |-> sp.wavelengths, y |-> sp.intensities]
  /\ originalData = [x |-> sp.wavelengths, y |-> sp.intensities]
  /\ processedDataRef = [x |-> sp.wavelengths, y |-> sp.intensities]
  /\ baselinePoints = <<>>
  /\ detectedPeaks = <<>>
  /\ selectedPeakForBoundaries = <<>>
  /\ boundaryAdjustmentStep = "null"
  /\ dataMode = IF sp.technique \in ModeTechniques
                  THEN detectDataMode(sp.intensities, sp.technique) ELSE "absorbance"
  /\ hasUnsavedChanges = FALSE
  /\ savedAnalyses = [k \in SavedKeys |-> Undefined]
  /\ recalcTimers = {}
  /\ noticePending = FALSE
  /\ loadPending = TRUE
  /\ db = store
  /\ clock = 0
  /\ opens = n
  /\ isProcessing = FALSE
  /\ exportedCSV = <<>>
  /\ baselineParams = DefaultBaselineParams
  /\ lastOp = "other"

Init == \E sp \in Spectra : OpenedOn(sp, [m \in Methods |-> <<>>], 0)

----------------------------------------------------------------------------
(* The session: state updates the handlers share *)

\* a ref that is never synchronised: it keeps the data it was created with
RefAfterRender_Stale(newData) == processedDataRef

\* useEffect(() => { processedDataRef.current = processedData }, [processedData]):
\* after the render that follows a handler, and its effects, the ref holds the
\* data just set; the render and its effects run before any timer callback
RefAfterRender(newData) == newData

\* every handler that calls setProcessedData(newData)
SetProcessedData(newData) ==
  /\ processedData' = newData
  /\ processedDataRef' = RefAfterRender(newData)

KeepProcessedData == UNCHANGED <<processedData, processedDataRef>>

\* setDetectedPeaks(peaks), and the render that follows it
SetDetectedPeaks(peaks) == detectedPeaks' = RenderSort(peaks, spectrum.technique)

\* updatePeakBoundary(peakId, boundaryType, newValue) as a map over the peaks
updatePeakBoundary(peaks, peakId, boundaryType, newValue) ==
  [i \in 1..Len(peaks) |->
     IF peaks[i].id = peakId
       THEN IF boundaryType = "start"
              THEN [peaks[i] EXCEPT !.integrationStart = Some(newValue),
                                    !.manuallyAdjusted = Some(TRUE)]
              ELSE [peaks[i] EXCEPT !.integrationEnd = Some(newValue),
                                    !.manuallyAdjusted = Some(TRUE)]
       ELSE peaks[i]]

\* recalculateIntegrationForPeak(peakId) as a map over the current peaks
recalculateIntegrationForPeak(peaks, peakId, currentData) ==
  [i \in 1..Len(peaks) |->
     IF peaks[i].id = peakId /\ HasBoundaries(peaks[i])
       THEN [peaks[i] EXCEPT
               !.integrationArea = Some(RecalcArea(currentData,
                                                   Val(peaks[i].integrationStart),
                                                   Val(peaks[i].integrationEnd))),
               !.manuallyAdjusted = Some(TRUE)]
       ELSE peaks[i]]

\* a second click refused only on the very x of the start boundary
TooCloseToStart_SameX(x, startBoundary) == x = startBoundary

\* Math.abs(x - startBoundary) < 0.01: the second click is refused
TooCloseToStart(x, startBoundary) == Abs(x - startBoundary) < Tol

\* the two clicked values stored in click order, without the swap
FinalBoundaries_ClickOrder(startBoundary, x) ==
  [finalStart |-> startBoundary, finalEnd |-> x]

\* finalStart, finalEnd of an accepted second click
FinalBoundaries(startBoundary, x) ==
  [finalStart |-> Min2(startBoundary, x), finalEnd |-> Max2(startBoundary, x)]

\* the step an accepted second click leaves: setBoundaryAdjustmentStep(null)
StepAfterSecondClick == "null"

\* integrateAllPeaks: the record of one peak
IntegratedPeak(peak, data) ==
  LET result == calculatePeakArea(peak, data)
  IN  [peak EXCEPT
         !.integrationArea = Some(result.area),
         !.integrationStart = Some(OrElse(peak.integrationStart, result.startX)),
         !.integrationEnd = Some(OrElse(peak.integrationEnd, result.endX)),
         !.manuallyAdjusted = Some(IF peak.manuallyAdjusted = Some(TRUE) THEN TRUE ELSE FALSE)]

----------------------------------------------------------------------------
(* The session: handlers.  activeTool and toolModes are set freely by the   *)
(* tool buttons with no other effect, so a handler that reads them draws    *)
(* them as an input.                                                        *)

\* setTimeout(() => recalculateIntegrationForPeak(id), 50): the pending callbacks,
\* each with the processedData of the render whose handler scheduled it
SetTimeout(timers, id) == timers \cup {[id |-> id, clickData |-> processedData]}

\* handlePlotClick, for a click on the sample at index i of the Spectrum trace;
\* manualTool is "baseline" for activeTool = 'baseline' with toolModes.baseline =
\* 'manual', "peak" for activeTool = 'peak' with toolModes.peak = 'manual', and
\* "none" for every other setting of the tools
PlotClick(i, manualTool) ==
  LET x == processedData.x[i]
      y == processedData.y[i]
      sel == selectedPeakForBoundaries
      adjusting == /\ IsDefined(sel)
                   /\ Val(sel) \in PeakIds(detectedPeaks)
                   /\ HasBoundaries(PeakById(detectedPeaks, Val(sel)))
      selectedPeak == PeakById(detectedPeaks, Val(sel))
      startBoundary == Val(selectedPeak.integrationStart)
      final == FinalBoundaries(startBoundary, x)
  IN  /\ UNCHANGED <<baselineParams, exportedCSV, isProcessing, spectrum, originalData, selectedPeakForBoundaries,
                     dataMode, hasUnsavedChanges, savedAnalyses, noticePending,
                     loadPending, db, opens>>
      /\ KeepProcessedData
      /\ IF adjusting /\ boundaryAdjustmentStep \in {"null", "start"}
           THEN \* first click: set start boundary
                /\ SetDetectedPeaks(updatePeakBoundary(detectedPeaks, Val(sel), "start", x))
                /\ boundaryAdjustmentStep' = "end"
                /\ lastOp' = "other"
                /\ UNCHANGED <<baselinePoints, recalcTimers, clock>>
         ELSE IF adjusting /\ boundaryAdjustmentStep = "end"
           THEN IF TooCloseToStart(x, startBoundary)
                  THEN /\ lastOp' = "RejectedClick"
                       /\ UNCHANGED <<baselinePoints, detectedPeaks, boundaryAdjustmentStep,
                                      recalcTimers, clock>>
                  ELSE /\ SetDetectedPeaks(
                            updatePeakBoundary(
                              updatePeakBoundary(detectedPeaks, Val(sel), "start",
                                                 final.finalStart),
                              Val(sel), "end", final.finalEnd))
                       /\ boundaryAdjustmentStep' = StepAfterSecondClick
                       /\ recalcTimers' = SetTimeout(recalcTimers, Val(sel))
                       /\ lastOp' = "AcceptedClick"
                       /\ UNCHANGED <<baselinePoints, clock>>
         ELSE IF manualTool = "baseline"
           THEN /\ Len(baselinePoints) < MaxBaselinePoints
                /\ baselinePoints' = Append(baselinePoints, [x |-> x, y |-> y])
                /\ lastOp' = "other"
                /\ UNCHANGED <<detectedPeaks, boundaryAdjustmentStep, recalcTimers, clock>>
         ELSE IF manualTool = "peak"
           THEN /\ clock < MaxManualPeaks
                /\ SetDetectedPeaks(Append(detectedPeaks,
                        NewPeak(<<"manual_peak", clock>>, x, y, Undefined, Some(0))))
                /\ clock' = clock + 1
                /\ lastOp' = "other"
                /\ UNCHANGED <<baselinePoints, boundaryAdjustmentStep, recalcTimers>>
         ELSE UNCHANGED <<baselinePoints, detectedPeaks, boundaryAdjustmentStep,
                          recalcTimers, clock, lastOp>>

\* the setTimeout(.., 50) callback of an accepted second click
RecalcTimerFires(timer) ==
  /\ timer \in recalcTimers
  /\ recalcTimers' = recalcTimers \ {timer}
  /\ noticePending' = TRUE
  /\ SetDetectedPeaks(recalculateIntegrationForPeak(detectedPeaks, timer.id,
                                                    processedDataRef))
  /\ lastOp' = IF timer.clickData = processedData THEN "Recalc" ELSE "RecalcOnNewData"
  /\ KeepProcessedData
  /\ UNCHANGED <<baselineParams, exportedCSV, isProcessing, spectrum, originalData, baselinePoints, selectedPeakForBoundaries,
                 boundaryAdjustmentStep, dataMode, hasUnsavedChanges, savedAnalyses,
                 loadPending, db, clock, opens>>

\* the nested setTimeout(.., 100) callback: the completion message
NoticeTimerFires ==
  /\ noticePending
  /\ noticePending' = FALSE
  /\ hasUnsavedChanges' = TRUE
  /\ lastOp' = "other"
  /\ KeepProcessedData
  /\ UNCHANGED <<baselineParams, exportedCSV, isProcessing, spectrum, originalData, baselinePoints, detectedPeaks,
                 selectedPeakForBoundaries, boundaryAdjustmentStep, dataMode,
                 savedAnalyses, recalcTimers, loadPending, db, clock, opens>>

\* onClick of a row of the peak table
RowClick(i) ==
  LET peak == detectedPeaks[i]
  IN  /\ i \in 1..Len(detectedPeaks)
      /\ Truthy(peak.integrationArea)
      /\ IF selectedPeakForBoundaries = Some(peak.id)
           THEN /\ selectedPeakForBoundaries' = <<>>
                /\ boundaryAdjustmentStep' = "null"
                /\ lastOp' = "RowDeselect"
           ELSE /\ selectedPeakForBoundaries' = Some(peak.id)
                /\ boundaryAdjustmentStep' = "start"
                /\ lastOp' = "other"
      /\ KeepProcessedData
      /\ UNCHANGED <<baselineParams, exportedCSV, isProcessing, spectrum, originalData, baselinePoints, detectedPeaks, dataMode,
                     hasUnsavedChanges, savedAnalyses, recalcTimers, noticePending,
                     loadPending, db, clock, opens>>

\* a cancel that also drops the boundaries the adjustment has set so far
CancelAdjustment_DropsBoundaries ==
  /\ IsDefined(selectedPeakForBoundaries)
  /\ Len(detectedPeaks) > 0
  /\ selectedPeakForBoundaries' = <<>>
  /\ boundaryAdjustmentStep' = "null"
  /\ lastOp' = "CancelAdjustment"
  /\ detectedPeaks' = [i \in 1..Len(detectedPeaks) |->
                         IF Some(detectedPeaks[i].id) = selectedPeakForBoundaries
                           THEN [detectedPeaks[i] EXCEPT !.integrationStart = Undefined,
                                                         !.integrationEnd = Undefined]
                           ELSE detectedPeaks[i]]
  /\ UNCHANGED <<baselineParams, exportedCSV, isProcessing, spectrum, processedData, processedDataRef, originalData, baselinePoints,
                 dataMode, hasUnsavedChanges, savedAnalyses, recalcTimers, noticePending,
                 loadPending, db, clock, opens>>

\* onClick of Cancel Adjustment (rendered while a peak is selected and peaks exist)
CancelAdjustment ==
  /\ IsDefined(selectedPeakForBoundaries)
  /\ Len(detectedPeaks) > 0
  /\ selectedPeakForBoundaries' = <<>>
  /\ boundaryAdjustmentStep' = "null"
  /\ lastOp' = "CancelAdjustment"
  /\ KeepProcessedData
  /\ UNCHANGED <<baselineParams, exportedCSV, isProcessing, spectrum, originalData, baselinePoints, detectedPeaks, dataMode,
                 hasUnsavedChanges, savedAnalyses, recalcTimers, noticePending,
                 loadPending, db, clock, opens>>

\* onClick of Clear All Results
ClearAllResults ==
  /\ \E i \in 1..Len(detectedPeaks) : Truthy(detectedPeaks[i].integrationArea)
  /\ SetDetectedPeaks([i \in 1..Len(detectedPeaks) |->
                         [detectedPeaks[i] EXCEPT !.integrationArea = Undefined]])
  /\ selectedPeakForBoundaries' = <<>>
  /\ boundaryAdjustmentStep' = "null"
  /\ lastOp' = "other"
  /\ KeepProcessedData
  /\ UNCHANGED <<baselineParams, exportedCSV, isProcessing, spectrum, originalData, baselinePoints, dataMode, hasUnsavedChanges,
                 savedAnalyses, recalcTimers, noticePending, loadPending, db, clock, opens>>

\* integrateAllPeaks (the button is rendered while peaks exist)
integrateAllPeaks ==
  /\ Len(detectedPeaks) > 0
  /\ SetDetectedPeaks([i \in 1..Len(detectedPeaks) |->
                         IntegratedPeak(detectedPeaks[i], processedData)])
  /\ hasUnsavedChanges' = TRUE
  /\ lastOp' = "other"
  /\ KeepProcessedData
  /\ UNCHANGED <<baselineParams, exportedCSV, isProcessing, spectrum, originalData, baselinePoints, selectedPeakForBoundaries,
                 boundaryAdjustmentStep, dataMode, savedAnalyses, recalcTimers,
                 noticePending, loadPending, db, clock, opens>>

\* performPeakDetection: the peaks of the try block
PrimaryPeaks(params) ==
  LET found == detectPeaks(processedData.x, processedData.y, params,
                           spectrum.technique, dataMode)
  IN  [i \in 1..Len(found) |->
         NewPeak(found[i].id, found[i].x, found[i].y,
                 Some(found[i].width), Some(found[i].prominence))]

\* windowSize: Math.max(3, Math.floor(x.length / 100))
FallbackWindowSize == Max2(3, Len(processedData.x) \div 100)

\* a catch block that leaves the peaks as they are
FallbackPeaks_None(params) == detectedPeaks

\* performPeakDetection: the peaks of the catch block
FallbackPeaks(params) ==
  LET windowSize == FallbackWindowSize
      found == detectPeaksSimplified(processedData.x, processedData.y,
                 [prominence |-> params.prominence, distance |-> params.distance,
                  windowSize |-> windowSize],
                 spectrum.technique, dataMode)
  IN  [i \in 1..Len(found) |->
         NewPeak(found[i].id, found[i].x, found[i].y,
                 Undefined, Some(found[i].prominence))]

\* performPeakDetection(peakParams) when detectPeaks raises or not, and when
\* detectPeaksSimplified, if it is called, raises or not
PeakDetectionOutcome(params, primaryRaises, fallbackRaises) ==
  /\ IF ~primaryRaises
       THEN /\ SetDetectedPeaks(PrimaryPeaks(params))
            /\ hasUnsavedChanges' = TRUE
       ELSE IF ~fallbackRaises
         THEN /\ SetDetectedPeaks(FallbackPeaks(params))
              /\ hasUnsavedChanges' = TRUE
         ELSE UNCHANGED <<detectedPeaks, hasUnsavedChanges>>
  \* finally
  /\ isProcessing' = FALSE
  /\ lastOp' = "other"
  /\ KeepProcessedData
  /\ UNCHANGED <<baselineParams, exportedCSV, spectrum, originalData, baselinePoints, selectedPeakForBoundaries,
                 boundaryAdjustmentStep, dataMode, savedAnalyses, recalcTimers,
                 noticePending, loadPending, db, clock, opens>>

\* performPeakDetection(peakParams)
performPeakDetection(params) ==
  \E primaryRaises \in {FALSE, MaxSpreadMayRaise(processedData.x, processedData.y, 3)},
     fallbackRaises \in {FALSE, MaxSpreadMayRaise(processedData.x, processedData.y,
                                                  2 * FallbackWindowSize + 1)} :
    /\ fallbackRaises => primaryRaises
    /\ PeakDetectionOutcome(params, primaryRaises, fallbackRaises)

\* onClick of Clear Peaks
ClearPeaks ==
  /\ detectedPeaks' = <<>>
  /\ lastOp' = "other"
  /\ KeepProcessedData
  /\ UNCHANGED <<baselineParams, exportedCSV, isProcessing, spectrum, originalData, baselinePoints, selectedPeakForBoundaries,
                 boundaryAdjustmentStep, dataMode, hasUnsavedChanges, savedAnalyses,
                 recalcTimers, noticePending, loadPending, db, clock, opens>>

\* onClick of Clear Manual Peaks
ClearManualPeaks ==
  LET NotManual(p) == p.id[1] # "manual_peak"
  IN  /\ \E i \in 1..Len(detectedPeaks) : ~NotManual(detectedPeaks[i])
      /\ SetDetectedPeaks(SelectSeq(detectedPeaks, NotManual))
      /\ lastOp' = "other"
      /\ KeepProcessedData
      /\ UNCHANGED <<baselineParams, exportedCSV, isProcessing, spectrum, originalData, baselinePoints, selectedPeakForBoundaries,
                     boundaryAdjustmentStep, dataMode, hasUnsavedChanges, savedAnalyses,
                     recalcTimers, noticePending, loadPending, db, clock, opens>>

\* onClick of a row's Delete peak button
DeletePeak(i) ==
  LET Others(p) == p.id # detectedPeaks[i].id
  IN  /\ i \in 1..Len(detectedPeaks)
      /\ SetDetectedPeaks(SelectSeq(detectedPeaks, Others))
      /\ lastOp' = "other"
      /\ KeepProcessedData
      /\ UNCHANGED <<baselineParams, exportedCSV, isProcessing, spectrum, originalData, baselinePoints, selectedPeakForBoundaries,
                     boundaryAdjustmentStep, dataMode, hasUnsavedChanges, savedAnalyses,
                     recalcTimers, noticePending, loadPending, db, clock, opens>>

\* performBaselineCorrection('polynomial', baselineParams), degree || 3
performBaselineCorrection ==
  LET result == polynomialBaselineCorrection(processedData.x, processedData.y)
  IN  /\ SetProcessedData([processedData EXCEPT !.y = result.corrected])
      /\ baselinePoints' = [i \in 1..Len(result.baseline) |->
                              [x |-> processedData.x[i], y |-> result.baseline[i]]]
      /\ hasUnsavedChanges' = TRUE
      /\ isProcessing' = FALSE
      /\ lastOp' = "other"
      /\ UNCHANGED <<baselineParams, exportedCSV, spectrum, originalData, detectedPeaks, selectedPeakForBoundaries,
                     boundaryAdjustmentStep, dataMode, savedAnalyses, recalcTimers,
                     noticePending, loadPending, db, clock, opens>>

\* onClick of Reset to Original
ResetToOriginal ==
  /\ SetProcessedData(originalData)
  /\ baselinePoints' = <<>>
  /\ baselineParams' = [baselineParams EXCEPT !.iterations = 10, !.useSimplified = FALSE]
  /\ lastOp' = "other"
  /\ UNCHANGED <<exportedCSV, isProcessing, spectrum, originalData, detectedPeaks, selectedPeakForBoundaries,
                 boundaryAdjustmentStep, dataMode, hasUnsavedChanges, savedAnalyses,
                 recalcTimers, noticePending, loadPending, db, clock, opens>>

\* a handler that converts the working y alone
handleDataModeChange_WorkingOnly(newMode) ==
  /\ spectrum.technique \in ModeTechniques
  /\ newMode # dataMode
  /\ SetProcessedData([processedData EXCEPT
        !.y = convertAbsorbanceTransmittance(processedData.y, dataMode, newMode)])
  /\ dataMode' = newMode
  /\ lastOp' = "other"
  /\ UNCHANGED <<baselineParams, exportedCSV, isProcessing, spectrum, originalData, baselinePoints, detectedPeaks,
                 selectedPeakForBoundaries, boundaryAdjustmentStep,
                 hasUnsavedChanges, savedAnalyses, recalcTimers, noticePending,
                 loadPending, db, clock, opens>>

\* handleDataModeChange(newMode); the toggle is rendered for UV-Vis and IR
handleDataModeChange(newMode) ==
  /\ spectrum.technique \in ModeTechniques
  /\ lastOp' = "other"
  /\ UNCHANGED <<baselineParams, exportedCSV, isProcessing, spectrum, selectedPeakForBoundaries, boundaryAdjustmentStep,
                 hasUnsavedChanges, savedAnalyses, recalcTimers, noticePending,
                 loadPending, db, clock, opens>>
  /\ IF newMode = dataMode
       THEN /\ KeepProcessedData
            /\ UNCHANGED <<originalData, baselinePoints, detectedPeaks, dataMode>>
       ELSE /\ SetProcessedData([processedData EXCEPT
                 !.y = convertAbsorbanceTransmittance(processedData.y, dataMode, newMode)])
            /\ originalData' = [originalData EXCEPT
                 !.y = convertAbsorbanceTransmittance(originalData.y, dataMode, newMode)]
            /\ baselinePoints' = [i \in 1..Len(baselinePoints) |->
                 [baselinePoints[i] EXCEPT
                    !.y = convertAbsorbanceTransmittance(<<baselinePoints[i].y>>,
                                                         dataMode, newMode)[1]]]
            /\ SetDetectedPeaks([i \in 1..Len(detectedPeaks) |->
                 [detectedPeaks[i] EXCEPT
                    !.y = convertAbsorbanceTransmittance(<<detectedPeaks[i].y>>,
                                                         dataMode, newMode)[1]]])
            /\ dataMode' = newMode

----------------------------------------------------------------------------
(* The session and the persistence collaborator.  db[m] is the sequence of  *)
(* analysis records of method m in creation order; a record's id is its     *)
(* position; the collaborator's "latest" record of a method is the last.    *)

\* createAnalysis
CreateAnalysis(records, results) == Append(records, results)
\* updateAnalysis(id, ..)
UpdateAnalysis(records, id, results) == [records EXCEPT ![id] = results]
\* getLatestAnalysesForSpectrum: the methods that have a record
LatestMethods(store) == {m \in Methods : Len(store[m]) > 0}
Latest(store, m) == store[m][Len(store[m])]

\* saveAllAnalysisResults: whether it saves method m, and the results it sends
SavesMethod(m) ==
  IF m = "baseline_correction" THEN Len(baselinePoints) > 0
  ELSE IF m = "peak_detection" THEN Len(detectedPeaks) > 0
  ELSE \E i \in 1..Len(detectedPeaks) : IsDefined(detectedPeaks[i].integrationArea)

HasArea(p) == IsDefined(p.integrationArea)

SavedResults(m) ==
  IF m = "baseline_correction"
    THEN [corrected_intensities |-> processedData.y,
          baseline |-> [i \in 1..Len(baselinePoints) |-> baselinePoints[i].y],
          data_mode |-> dataMode,
          applied |-> TRUE,
          parameters |-> baselineParams]
  ELSE IF m = "peak_detection"
    THEN [peaks |-> [i \in 1..Len(detectedPeaks) |->
                       [id |-> detectedPeaks[i].id,
                        position |-> detectedPeaks[i].x,
                        intensity |-> detectedPeaks[i].y,
                        width |-> detectedPeaks[i].width,
                        prominence |-> detectedPeaks[i].prominence]],
          data_mode |-> dataMode]
  ELSE LET integrated == SelectSeq(detectedPeaks, HasArea)
       IN  [integrated_peaks |-> [i \in 1..Len(integrated) |->
                       [id |-> integrated[i].id,
                        position |-> integrated[i].x,
                        intensity |-> integrated[i].y,
                        integration_area |-> integrated[i].integrationArea,
                        integration_start |-> integrated[i].integrationStart,
                        integration_end |-> integrated[i].integrationEnd,
                        manually_adjusted |-> integrated[i].manuallyAdjusted]],
            data_mode |-> dataMode]

\* saveAnalysisToDatabase: updateExisting && existingAnalysis
UpdatesExisting(m) ==
  IsDefined(savedAnalyses[CamelKey(m)]) /\ IsDefined(savedAnalyses[m])

\* saveAllAnalysisResults, with every request answered
saveAllAnalysisResults ==
  /\ Len(baselinePoints) > 0 \/ Len(detectedPeaks) > 0
  /\ \A m \in Methods : (SavesMethod(m) /\ ~UpdatesExisting(m)) => Len(db[m]) < MaxRecords
  /\ db' = [m \in Methods |->
              IF ~SavesMethod(m) THEN db[m]
              ELSE IF UpdatesExisting(m)
                THEN UpdateAnalysis(db[m], Val(savedAnalyses[m]), SavedResults(m))
                ELSE CreateAnalysis(db[m], SavedResults(m))]
  /\ savedAnalyses' = [k \in SavedKeys |->
              IF \E m \in Methods : k = CamelKey(m) /\ SavesMethod(m)
                THEN LET m == CHOOSE mm \in Methods : k = CamelKey(mm)
                     IN  IF UpdatesExisting(m) THEN savedAnalyses[m]
                         ELSE Some(Len(db[m]) + 1)
                ELSE Undefined]
  /\ hasUnsavedChanges' = FALSE
  /\ lastOp' = "other"
  /\ KeepProcessedData
  /\ UNCHANGED <<baselineParams, exportedCSV, isProcessing, spectrum, originalData, baselinePoints, detectedPeaks,
                 selectedPeakForBoundaries, boundaryAdjustmentStep, dataMode,
                 recalcTimers, noticePending, loadPending, clock, opens>>

\* loadSavedAnalysisResults: the switch statement applied to one analysis
ApplyLoaded(st, m, results) ==
  IF m = "baseline_correction"
    THEN [st EXCEPT
            !.y = results.corrected_intensities,
            !.params = results.parameters,
            !.points = [i \in 1..Len(results.baseline) |->
                          [x |-> originalData.x[i], y |-> results.baseline[i]]]]
  ELSE IF m = "peak_detection"
    THEN [st EXCEPT
            !.peaks = [i \in 1..Len(results.peaks) |->
                         NewPeak(results.peaks[i].id, results.peaks[i].position,
                                 results.peaks[i].intensity, results.peaks[i].width,
                                 results.peaks[i].prominence)]]
  ELSE [st EXCEPT
          !.peaks = [i \in 1..Len(st.peaks) |->
             LET matches == {j \in 1..Len(results.integrated_peaks) :
                               results.integrated_peaks[j].id = st.peaks[i].id}
                 savedPeak == results.integrated_peaks[
                                CHOOSE j \in matches : \A k \in matches : j <= k]
             IN  IF matches = {} THEN st.peaks[i]
                 ELSE [st.peaks[i] EXCEPT
                         !.integrationArea = savedPeak.integration_area,
                         !.integrationStart = savedPeak.integration_start,
                         !.integrationEnd = savedPeak.integration_end,
                         !.manuallyAdjusted = savedPeak.manually_adjusted]]]

\* for (const analysis of analyses), in the order the collaborator returned them
RECURSIVE ApplyAllLoaded(_, _, _)
ApplyAllLoaded(st, order, store) ==
  IF order = <<>> THEN st
  ELSE ApplyAllLoaded(ApplyLoaded(st, Head(order), Latest(store, Head(order))),
                      Tail(order), store)

\* the orders in which a set of methods can be returned
Orders(ms) ==
  {o \in UNION {[1..n -> ms] : n \in {Cardinality(ms)}} :
     \A i, j \in 1..Cardinality(ms) : i # j => o[i] # o[j]}

\* loadSavedAnalysisResults, run by the 500 ms timer of the open
LoadLands(order) ==
  LET st == ApplyAllLoaded([y |-> processedData.y, points |-> baselinePoints,
                            peaks |-> detectedPeaks, params |-> baselineParams],
                           order, db)
  IN  /\ loadPending
      /\ order \in Orders(LatestMethods(db))
      /\ loadPending' = FALSE
      /\ SetProcessedData([processedData EXCEPT !.y = st.y])
      /\ baselinePoints' = st.points
      /\ baselineParams' = st.params
      /\ SetDetectedPeaks(st.peaks)
      /\ savedAnalyses' = [k \in SavedKeys |->
                             IF k \in LatestMethods(db) THEN Some(Len(db[k])) ELSE Undefined]
      /\ hasUnsavedChanges' = FALSE
      /\ lastOp' = "other"
      /\ UNCHANGED <<exportedCSV, isProcessing, spectrum, originalData, selectedPeakForBoundaries,
                     boundaryAdjustmentStep, dataMode, recalcTimers, noticePending,
                     db, clock, opens>>

\* the spectrum is opened again: a new mount of the component on the same store
Reopen ==
  /\ opens < MaxReopens
  /\ processedData' = [x |-> spectrum.wavelengths, y |-> spectrum.intensities]
  /\ originalData' = [x |-> spectrum.wavelengths, y |-> spectrum.intensities]
  /\ processedDataRef' = [x |-> spectrum.wavelengths, y |-> spectrum.intensities]
  /\ baselinePoints' = <<>>
  /\ detectedPeaks' = <<>>
  /\ selectedPeakForBoundaries' = <<>>
  /\ boundaryAdjustmentStep' = "null"
  /\ dataMode' = IF spectrum.technique \in ModeTechniques
                   THEN detectDataMode(spectrum.intensities, spectrum.technique)
                   ELSE "absorbance"
  /\ hasUnsavedChanges' = FALSE
  /\ savedAnalyses' = [k \in SavedKeys |-> Undefined]
  /\ recalcTimers' = {}
  /\ noticePending' = FALSE
  /\ loadPending' = TRUE
  /\ clock' = 0
  /\ opens' = opens + 1
  /\ lastOp' = "other"
  /\ isProcessing' = FALSE
  /\ baselineParams' = DefaultBaselineParams
  /\ UNCHANGED <<exportedCSV, spectrum, db>>

----------------------------------------------------------------------------
(* SpectrumViewer.tsx: the manual baseline *)

\* the baseline at x: the y of the first point up to it, of the last point
\* from it on, and between two points the line through them (rounded down
\* to a whole intensity)
ManualBaselineAt(sortedPoints, x) ==
  LET n == Len(sortedPoints)
      between == {i \in 1..(n - 1) : x >= sortedPoints[i].x /\ x <= sortedPoints[i + 1].x}
      i == CHOOSE k \in between : \A j \in between : k <= j
  IN  IF x <= sortedPoints[1].x THEN sortedPoints[1].y
      ELSE IF x >= sortedPoints[n].x THEN sortedPoints[n].y
      ELSE IF between = {} THEN sortedPoints[1].y
      ELSE sortedPoints[i].y
             + ((x - sortedPoints[i].x) * (sortedPoints[i + 1].y - sortedPoints[i].y))
                 \div (sortedPoints[i + 1].x - sortedPoints[i].x)

\* originalY.map((y, i) => y - baseline[i])
ManualCorrected(y, baseline) == [i \in 1..Len(y) |-> y[i] - baseline[i]]

\* onClick of Apply Manual Baseline (disabled with fewer than two points)
ApplyManualBaseline ==
  LET sortedPoints == StableSort(baselinePoints,
                                 [i \in 1..Len(baselinePoints) |-> baselinePoints[i].x])
      baseline == [i \in 1..Len(originalData.x) |->
                     ManualBaselineAt(sortedPoints, originalData.x[i])]
  IN  /\ Len(baselinePoints) >= 2
      /\ SetProcessedData([x |-> originalData.x,
                           y |-> ManualCorrected(originalData.y, baseline)])
      /\ lastOp' = "other"
      /\ UNCHANGED <<baselineParams, exportedCSV, isProcessing, spectrum, originalData, baselinePoints, detectedPeaks,
                     selectedPeakForBoundaries, boundaryAdjustmentStep, dataMode,
                     hasUnsavedChanges, savedAnalyses, recalcTimers, noticePending,
                     loadPending, db, clock, opens>>

----------------------------------------------------------------------------
(* Specifications *)

\* The analysis session of one opened spectrum with nothing saved: every
\* handler of the toolbar, the plot and the peak table but the manual peak tool.
Next ==
  \/ \E i \in 1..Len(processedData.x) : PlotClick(i, "none")
  \/ \E timer \in recalcTimers : RecalcTimerFires(timer)
  \/ NoticeTimerFires
  \/ \E i \in 1..Len(detectedPeaks) : RowClick(i)
  \/ CancelAdjustment
  \/ ClearAllResults
  \/ integrateAllPeaks
  \/ \E params \in PeakParamChoices : performPeakDetection(params)
  \/ ClearPeaks
  \/ \E i \in 1..Len(detectedPeaks) : DeletePeak(i)
  \/ performBaselineCorrection
  \/ ResetToOriginal
  \/ \E newMode \in {"absorbance", "transmittance"} : handleDataModeChange(newMode)
  \/ \E order \in Orders(LatestMethods(db)) : LoadLands(order)

Spec == Init /\ [][Next]_vars

\* The peak list: detection runs, the manual peak tool and the ways to drop peaks
NextPeaks ==
  \/ \E i \in 1..Len(processedData.x), manualTool \in {"baseline", "peak"} :
       PlotClick(i, manualTool)
  \/ \E params \in PeakParamChoices : performPeakDetection(params)
  \/ ClearPeaks
  \/ ClearManualPeaks
  \/ \E i \in 1..Len(detectedPeaks) : DeletePeak(i)
  \/ performBaselineCorrection
  \/ ApplyManualBaseline
  \/ ResetToOriginal
  \/ \E newMode \in {"absorbance", "transmittance"} : handleDataModeChange(newMode)

SpecPeaks == Init /\ [][NextPeaks]_vars

\* Saving and re-opening: detection, integration and the boundary adjustment
\* on the ascending spectrum, with the results saved, the spectrum opened
\* again and the saved results arriving while the new session is in use
InitPersist ==
  \E sp \in {s \in Spectra : s.technique = "raman"} :
    OpenedOn(sp, [m \in Methods |-> <<>>], 0)

NextPersist ==
  \/ \E i \in 1..Len(processedData.x) : PlotClick(i, "none")
  \/ \E timer \in recalcTimers : RecalcTimerFires(timer)
  \/ NoticeTimerFires
  \/ \E i \in 1..Len(detectedPeaks) : RowClick(i)
  \/ integrateAllPeaks
  \/ \E params \in PeakParamChoices : performPeakDetection(params)
  \/ saveAllAnalysisResults
  \/ \E order \in Orders(LatestMethods(db)) : LoadLands(order)
  \/ Reopen

SpecPersist == InitPersist /\ [][NextPersist]_vars

\* The two area calculators on spectra of either axis direction: the session
\* right after an accepted second click on a manually placed peak (placed,
\* bulk-integrated, selected and given the boundaries start < end by two
\* clicks), then the delayed recomputation and bulk integration in any order.
AreaAxes == {<<0, 8, 16>>, <<-8, 0, 8>>, <<16, 8, 0>>, <<8, 0, -8>>}
AreaInputs == {[x |-> ax, y |-> ys] : ax \in AreaAxes, ys \in [1..3 -> 0..MaxIntensity]}

InitArea ==
  \E data \in AreaInputs, start \in -8..16, end \in -8..16 :
    LET id == <<"manual_peak", 0>>
        placed == NewPeak(id, data.x[2], data.y[2], Undefined, Some(0))
    IN  /\ \E i, j \in 1..3 : data.x[i] = start /\ data.x[j] = end
        /\ start < end
        /\ spectrum = [technique |-> "raman", wavelengths |-> data.x,
                       intensities |-> data.y]
        /\ processedData = data
        /\ originalData = data
        /\ processedDataRef = data
        /\ baselinePoints = <<>>
        /\ detectedPeaks =
             <<[placed EXCEPT !.integrationArea = Some(calculatePeakArea(placed, data).area),
                              !.integrationStart = Some(start),
                              !.integrationEnd = Some(end),
                              !.manuallyAdjusted = Some(TRUE)]>>
        /\ selectedPeakForBoundaries = Some(id)
        /\ boundaryAdjustmentStep = "null"
        /\ dataMode = "absorbance"
        /\ hasUnsavedChanges = FALSE
        /\ savedAnalyses = [k \in SavedKeys |-> Undefined]
        /\ recalcTimers = {[id |-> id, clickData |-> data]}
        /\ noticePending = FALSE
        /\ loadPending = FALSE
        /\ db = [m \in Methods |-> <<>>]
        /\ clock = 1
        /\ opens = 0
        /\ isProcessing = FALSE
        /\ exportedCSV = <<>>
        /\ baselineParams = DefaultBaselineParams
        /\ lastOp = "AcceptedClick"

NextArea ==
  \/ \E timer \in recalcTimers : RecalcTimerFires(timer)
  \/ NoticeTimerFires
  \/ integrateAllPeaks

SpecArea == InitArea /\ [][NextArea]_vars

----------------------------------------------------------------------------
(* The two-click boundary protocol *)

\* a peak is selected for adjustment and has both boundaries
Adjusting ==
  /\ IsDefined(selectedPeakForBoundaries)
  /\ Val(selectedPeakForBoundaries) \in PeakIds(detectedPeaks)
  /\ HasBoundaries(PeakById(detectedPeaks, Val(selectedPeakForBoundaries)))
AwaitingEnd == Adjusting /\ boundaryAdjustmentStep = "end"
Idle == selectedPeakForBoundaries = <<>> /\ boundaryAdjustmentStep = "null"
SelectedPeak == PeakById(detectedPeaks, Val(selectedPeakForBoundaries))
\* the integration fields of every peak
IntegrationRecord(p) ==
  [id |-> p.id, integrationStart |-> p.integrationStart,
   integrationEnd |-> p.integrationEnd, integrationArea |-> p.integrationArea,
   manuallyAdjusted |-> p.manuallyAdjusted]
IntegrationRecords(peaks) == [i \in 1..Len(peaks) |-> IntegrationRecord(peaks[i])]
Boundaries(peaks) ==
  [i \in 1..Len(peaks) |-> <<peaks[i].id, peaks[i].integrationStart,
                              peaks[i].integrationEnd>>]

\* C1: while the protocol awaits the end boundary, a click whose x is within
\* 0.01 of the selected peak's start boundary is refused (the protocol still
\* awaits the end boundary and the peaks are as they were), and every other
\* click stores integrationStart < integrationEnd on the selected peak.
C1_SecondClick ==
  [][\A i \in 1..Len(processedData.x) :
       (AwaitingEnd /\ PlotClick(i, "none")) =>
         LET x == processedData.x[i]
             startBoundary == Val(SelectedPeak.integrationStart)
             after == PeakById(detectedPeaks', Val(selectedPeakForBoundaries))
         IN  IF Abs(x - startBoundary) < Tol
               THEN /\ boundaryAdjustmentStep' = "end"
                    /\ Boundaries(detectedPeaks') = Boundaries(detectedPeaks)
               ELSE Val(after.integrationStart) < Val(after.integrationEnd)]_vars

\* a second click has just been refused
C1_Refused == lastOp = "RejectedClick" /\ AwaitingEnd

\* C2 as the program has it: an accepted second click stores (min, max) of the
\* start boundary and the clicked x on the selected peak, marks it manually
\* adjusted and clears the pending step while the peak stays selected; a
\* further click then sets the start boundary of that peak again.
C2_AcceptedClick ==
  [][\A i \in 1..Len(processedData.x) :
       (Adjusting /\ PlotClick(i, "none")) =>
         LET x == processedData.x[i]
             startBoundary == Val(SelectedPeak.integrationStart)
             after == PeakById(detectedPeaks', Val(selectedPeakForBoundaries))
         IN  /\ (boundaryAdjustmentStep = "end" /\ Abs(x - startBoundary) >= Tol) =>
                  /\ after.integrationStart = Some(Min2(startBoundary, x))
                  /\ after.integrationEnd = Some(Max2(startBoundary, x))
                  /\ after.manuallyAdjusted = Some(TRUE)
                  /\ boundaryAdjustmentStep' = "null"
                  /\ selectedPeakForBoundaries' = selectedPeakForBoundaries
             /\ boundaryAdjustmentStep = "null" =>
                  /\ after.integrationStart = Some(x)
                  /\ boundaryAdjustmentStep' = "end"]_vars

\* an adjustment has just been completed
C2_Completed ==
  /\ lastOp = "AcceptedClick"
  /\ Adjusting
  /\ boundaryAdjustmentStep = "null"
  /\ SelectedPeak.manuallyAdjusted = Some(TRUE)

\* C2 as stated: once an accepted second click has cleared the pending step,
\* a click on the spectrum changes no boundary of any peak.
C2_IdleAfterAccept ==
  [][\A i \in 1..Len(processedData.x) :
       (boundaryAdjustmentStep = "null" /\ PlotClick(i, "none")) =>
         Boundaries(detectedPeaks') = Boundaries(detectedPeaks)]_vars

\* C3: the Cancel Adjustment button and a click on the selected peak's row
\* leave no peak selected and no step pending, and leave the integration
\* fields of every peak as they were.
C3_CancelKeepsRecords ==
  [][(\/ CancelAdjustment
      \/ \E i \in 1..Len(detectedPeaks) :
            /\ selectedPeakForBoundaries = Some(detectedPeaks[i].id)
            /\ RowClick(i))
       => /\ Idle'
          /\ IntegrationRecords(detectedPeaks') = IntegrationRecords(detectedPeaks)]_vars

\* an adjustment has just been cancelled after its first click
C3_Cancelled ==
  /\ lastOp \in {"CancelAdjustment", "RowDeselect"}
  /\ Idle
  /\ \E i \in 1..Len(detectedPeaks) :
        /\ HasBoundaries(detectedPeaks[i])
        /\ detectedPeaks[i].manuallyAdjusted = Some(TRUE)
        /\ Truthy(detectedPeaks[i].integrationArea)

----------------------------------------------------------------------------
(* Integration records *)

\* C4: the delayed recomputation stores, on the peak it was scheduled for, the
\* trapezoidal area of the working data of the moment it runs over the
\* boundaries the peak has then, also when the working y-data was replaced
\* after the click.
C4_RecalcUsesCurrentData ==
  [][\A timer \in recalcTimers :
       RecalcTimerFires(timer) =>
         \A i \in 1..Len(detectedPeaks') :
           LET p == detectedPeaks'[i]
           IN  (p.id = timer.id /\ HasBoundaries(p)) =>
                 p.integrationArea =
                   Some(RecalcArea(processedData, Val(p.integrationStart),
                                   Val(p.integrationEnd)))]_vars

\* a recomputation has just run on data that replaced the data of the click
C4_RecalcAfterDataChange ==
  /\ lastOp = "RecalcOnNewData"
  /\ \E i \in 1..Len(detectedPeaks) : IsDefined(detectedPeaks[i].integrationArea)

\* whether the x axis of the working data ascends
Ascending == processedData.x[1] < processedData.x[Len(processedData.x)]

\* C5: every peak with both boundaries has them in axis order: start below
\* end on an ascending axis, and two different values, in either numeric
\* order, on a descending one.
C5_StartBeforeEnd ==
  \A i \in 1..Len(detectedPeaks) :
    LET p == detectedPeaks[i]
    IN  HasBoundaries(p) =>
          IF Ascending
            THEN Val(p.integrationStart) < Val(p.integrationEnd)
            ELSE Val(p.integrationStart) # Val(p.integrationEnd)

\* C8: while no recomputation is pending, the area of every integrated peak
\* is the trapezoidal area of the working data over the peak's boundaries,
\* as either of the two area calculators gives it.
C8_AreasCurrent ==
  recalcTimers = {} =>
    \A i \in 1..Len(detectedPeaks) :
      LET p == detectedPeaks[i]
      IN  (HasBoundaries(p) /\ IsDefined(p.integrationArea)) =>
            \/ p.integrationArea =
                 Some(RecalcArea(processedData, Val(p.integrationStart),
                                 Val(p.integrationEnd)))
            \/ p.integrationArea = Some(calculatePeakArea(p, processedData).area)

\* C9: bulk integration leaves the boundaries and the manuallyAdjusted flag
\* of every peak that has both boundaries as they were.
C9_BulkKeepsBoundaries ==
  [][integrateAllPeaks =>
       \A i \in 1..Len(detectedPeaks) :
         HasBoundaries(detectedPeaks[i]) =>
           \E j \in 1..Len(detectedPeaks') :
             /\ detectedPeaks'[j].id = detectedPeaks[i].id
             /\ detectedPeaks'[j].integrationStart = detectedPeaks[i].integrationStart
             /\ detectedPeaks'[j].integrationEnd = detectedPeaks[i].integrationEnd
             /\ detectedPeaks'[j].manuallyAdjusted = detectedPeaks[i].manuallyAdjusted]_vars

----------------------------------------------------------------------------
(* Peak identity *)

\* C7: a detection run gives no peak an id that a peak of the list it
\* replaces carries.
C7_IdsNeverReassigned ==
  [][\A params \in PeakParamChoices :
       performPeakDetection(params) =>
         PeakIds(detectedPeaks') \cap PeakIds(detectedPeaks) = {}]_vars

----------------------------------------------------------------------------
(* The manuallyAdjusted flag *)

\* C6: over every step other than a detection run, a peak whose
\* manuallyAdjusted flag is true keeps the flag true if a peak with its id
\* is still in the list after the step.
C6_AdjustedStays ==
  [][(~ \E params \in PeakParamChoices : performPeakDetection(params)) =>
       \A i \in 1..Len(detectedPeaks) :
         (/\ detectedPeaks[i].manuallyAdjusted = Some(TRUE)
          /\ detectedPeaks[i].id \in PeakIds(detectedPeaks')) =>
           PeakById(detectedPeaks', detectedPeaks[i].id).manuallyAdjusted = Some(TRUE)]_vars

----------------------------------------------------------------------------
(* The area calculators *)

\* the same samples in the opposite x order
ReverseData(data) == [x |-> Reverse(data.x), y |-> Reverse(data.y)]

\* C10: for every peak with both boundaries, each of the two area
\* calculators gives a non-negative area that is the same on the working
\* data and on the same samples in the opposite x order, and the two
\* calculators give the same area.
C10_AreaDirectionInvariant ==
  \A i \in 1..Len(detectedPeaks) :
    LET p == detectedPeaks[i]
        start == Val(p.integrationStart)
        end == Val(p.integrationEnd)
        reversed == ReverseData(processedData)
    IN  HasBoundaries(p) =>
          /\ calculatePeakArea(p, processedData).area >= 0
          /\ RecalcArea(processedData, start, end) >= 0
          /\ calculatePeakArea(p, processedData).area = calculatePeakArea(p, reversed).area
          /\ RecalcArea(processedData, start, end) = RecalcArea(reversed, start, end)
          /\ calculatePeakArea(p, processedData).area = RecalcArea(processedData, start, end)

----------------------------------------------------------------------------
(* analysisAlgorithms.ts: convertWavelengthUnits.  An x value read from a   *)
(* file with XUNITS is a decimal number m * 10^e with mantissa m in         *)
(* {-1, 0, 1, 2, 5}; on these the reciprocal and the scalings by 1000 are   *)
(* exact.                                                                   *)

Dec(m, e) == [m |-> m, e |-> e]
\* 10000 * v in the place of 10000 / v
TenThousandOver_Times(v) == Dec(v.m, v.e + 4)
\* 10000 / v for v > 0
TenThousandOver(v) ==
  IF v.m = 1 THEN Dec(1, 4 - v.e) ELSE IF v.m = 2 THEN Dec(5, 3 - v.e) ELSE Dec(2, 3 - v.e)
\* v * 1000 and v / 1000
TimesThousand(v) == IF v.m = 0 THEN v ELSE Dec(v.m, v.e + 3)
OverThousand(v) == IF v.m = 0 THEN v ELSE Dec(v.m, v.e - 3)
\* v > 0
IsPositive(v) == v.m > 0
\* wavelength <= 0 || wavelength < 0.0001
TooSmallWavelength(v) == v.m <= 0 \/ v.e < -4

\* fromUnitLower.includes('micrometer') || .includes('micron') || === 'um'
IsMicrometers(u) == u \in {"micrometers", "microns", "um"}
\* toUnitLower.includes('micrometer') || .includes('micron')
NamesMicrometers(u) == u \in {"micrometers", "microns"}
\* .includes('wavenumber') || .includes('cm-1') || .includes('cm^-1')
IsWavenumbers(u) == u \in {"wavenumbers", "cm-1", "cm^-1"}
\* .includes('nanometer') || === 'nm'
IsNanometers(u) == u \in {"nanometers", "nm"}

\* the target unit the technique gives when toUnit is not passed
TechniqueUnit(technique) ==
  IF technique \in {"ir", "infrared"} THEN Some("wavenumbers")
  ELSE IF technique \in {"uv-vis", "uv", "vis"} THEN Some("nanometers")
  ELSE IF technique = "raman" THEN Some("wavenumbers")
  ELSE Undefined

\* units are given in lower case; actualUnit "cm-1 sign" and "micro sign m"
\* stand for the labels with the superscript and the micro sign, which no
\* rule recognises as a source unit
convertWavelengthUnits(xData, fromUnit, toUnit, technique) ==
  LET target == IF IsDefined(toUnit) THEN toUnit ELSE TechniqueUnit(technique)
      unchanged == [convertedX |-> xData, actualUnit |-> fromUnit, wasConverted |-> FALSE]
      to == Val(target)
  IN  IF ~IsDefined(target) THEN unchanged
      ELSE IF \/ fromUnit = to
              \/ fromUnit = "wavenumbers" /\ to = "wavenumbers"
              \/ fromUnit = "nanometers" /\ to = "nanometers"
        THEN unchanged
      ELSE IF IsMicrometers(fromUnit) /\ IsWavenumbers(to)
        THEN [convertedX |->
                SelectSeq([i \in 1..Len(xData) |->
                             IF TooSmallWavelength(xData[i]) THEN Dec(0, 0)
                             ELSE TenThousandOver(xData[i])], IsPositive),
              actualUnit |-> "cm-1 sign", wasConverted |-> TRUE]
      ELSE IF IsNanometers(fromUnit) /\ NamesMicrometers(to)
        THEN [convertedX |-> [i \in 1..Len(xData) |-> OverThousand(xData[i])],
              actualUnit |-> "micro sign m", wasConverted |-> TRUE]
      ELSE IF IsMicrometers(fromUnit) /\ IsNanometers(to)
        THEN [convertedX |-> [i \in 1..Len(xData) |-> TimesThousand(xData[i])],
              actualUnit |-> "nm", wasConverted |-> TRUE]
      ELSE IF IsWavenumbers(fromUnit) /\ NamesMicrometers(to)
        THEN [convertedX |->
                SelectSeq([i \in 1..Len(xData) |->
                             IF ~IsPositive(xData[i]) THEN Dec(0, 0)
                             ELSE TenThousandOver(xData[i])], IsPositive),
              actualUnit |-> "micro sign m", wasConverted |-> TRUE]
      ELSE unchanged

----------------------------------------------------------------------------
(* SpectrumViewer.tsx: the effect that initialises the data of a spectrum   *)
(* whose acquisition parameters name the unit of x                          *)

\* x values of the files: negative, zero, below 0.0001, and ordinary ones
XValues == {Dec(-1, 0), Dec(0, 0), Dec(5, -5), Dec(1, -4), Dec(2, 0), Dec(1, 1), Dec(2, 8)}
\* XUNITS of the files, lower-cased
XUnits == {"micrometers", "nanometers", "wavenumbers"}
UnitSpectra ==
  { [technique |-> t, xunits |-> u, wavelengths |-> w, intensities |-> <<60, 80>>] :
      t \in {"ir", "uv-vis", "raman"}, u \in {Undefined} \cup {Some(n) : n \in XUnits},
      w \in [1..2 -> XValues] }

\* xData and yData as the effect sets them
InitialData(sp) ==
  LET conversionResult ==
        convertWavelengthUnits(sp.wavelengths, Val(sp.xunits), Undefined, sp.technique)
  IN  [x |-> IF IsDefined(sp.xunits) /\ conversionResult.wasConverted
               THEN conversionResult.convertedX ELSE sp.wavelengths,
       y |-> sp.intensities]

\* the effect runs for the spectrum the page is given
InitialiseData(sp) ==
  /\ spectrum' = sp
  /\ originalData' = InitialData(sp)
  /\ SetProcessedData(InitialData(sp))
  /\ dataMode' = IF sp.technique \in ModeTechniques
                   THEN detectDataMode(sp.intensities, sp.technique) ELSE dataMode
  /\ loadPending' = TRUE
  /\ lastOp' = "other"
  /\ UNCHANGED <<baselineParams, exportedCSV, isProcessing, baselinePoints, detectedPeaks, selectedPeakForBoundaries,
                 boundaryAdjustmentStep, hasUnsavedChanges, savedAnalyses, recalcTimers,
                 noticePending, db, clock, opens>>

\* Opening spectra with and without XUNITS, switching the mode and resetting
InitOpen ==
  \E sp \in UnitSpectra :
    /\ spectrum = sp
    /\ processedData = InitialData(sp)
    /\ originalData = InitialData(sp)
    /\ processedDataRef = InitialData(sp)
    /\ baselinePoints = <<>>
    /\ detectedPeaks = <<>>
    /\ selectedPeakForBoundaries = <<>>
    /\ boundaryAdjustmentStep = "null"
    /\ dataMode = IF sp.technique \in ModeTechniques
                    THEN detectDataMode(sp.intensities, sp.technique) ELSE "absorbance"
    /\ hasUnsavedChanges = FALSE
    /\ savedAnalyses = [k \in SavedKeys |-> Undefined]
    /\ recalcTimers = {}
    /\ noticePending = FALSE
    /\ loadPending = TRUE
    /\ db = [m \in Methods |-> <<>>]
    /\ clock = 0
    /\ opens = 0
    /\ isProcessing = FALSE
    /\ exportedCSV = <<>>
    /\ baselineParams = DefaultBaselineParams
    /\ lastOp = "other"

NextOpen ==
  \/ \E sp \in UnitSpectra : InitialiseData(sp)
  \/ ResetToOriginal
  \/ \E newMode \in {"absorbance", "transmittance"} : handleDataModeChange(newMode)

SpecOpen == InitOpen /\ [][NextOpen]_vars

\* C11: the working data and the kept original have as many x as y, one for
\* each sample of the opened spectrum.
C11_EqualLengths ==
  /\ Len(processedData.x) = Len(processedData.y)
  /\ Len(originalData.x) = Len(originalData.y)
  /\ Len(processedData.x) = Len(spectrum.wavelengths)

----------------------------------------------------------------------------
(* Unit conversion there and back *)

\* the unit pairs with a rule in each direction
UnitPairs ==
  {<<"micrometers", "wavenumbers">>, <<"wavenumbers", "micrometers">>,
   <<"nanometers", "micrometers">>, <<"micrometers", "nanometers">>}

\* xData converted from unit u to unit v and the result converted back
ThereAndBack(xData, u, v) ==
  LET there == convertWavelengthUnits(xData, u, Some(v), spectrum.technique)
      back == convertWavelengthUnits(there.convertedX, v, Some(u), spectrum.technique)
  IN  [convertedX |-> back.convertedX,
       wasConverted |-> there.wasConverted /\ back.wasConverted]

\* a positive value that is at least 0.0001 when expressed in micrometers
Convertible(value, u) ==
  /\ IsPositive(value)
  /\ u = "micrometers" => ~TooSmallWavelength(value)
  /\ u = "wavenumbers" => ~TooSmallWavelength(TenThousandOver(value))

\* C20 for the values every rule keeps: for each unit pair with an inverse
\* rule, x values that are positive and at least 0.0001 in micrometers come
\* back from the conversion and its inverse as they were, in the same number
\* and order, and both conversions report wasConverted.
C20_RoundTrip ==
  \A pair \in UnitPairs :
    LET xData == spectrum.wavelengths
    IN  (\A i \in 1..Len(xData) : Convertible(xData[i], pair[1])) =>
          /\ ThereAndBack(xData, pair[1], pair[2]).convertedX = xData
          /\ ThereAndBack(xData, pair[1], pair[2]).wasConverted

\* a spectrum in micrometers has been opened and converted to wavenumbers,
\* and the conversion back gives the x values of the file
C20_ConvertedAndBack ==
  /\ spectrum.technique = "ir"
  /\ spectrum.xunits = Some("micrometers")
  /\ \A i \in 1..Len(spectrum.wavelengths) :
        Convertible(spectrum.wavelengths[i], "micrometers")
  /\ processedData.x # spectrum.wavelengths
  /\ convertWavelengthUnits(processedData.x, "wavenumbers", Some("micrometers"),
                            spectrum.technique).convertedX = spectrum.wavelengths

\* C20 as stated: the same for all positive x values.
C20_RoundTripPositive ==
  \A pair \in UnitPairs :
    LET xData == spectrum.wavelengths
    IN  (\A i \in 1..Len(xData) : IsPositive(xData[i])) =>
          /\ ThereAndBack(xData, pair[1], pair[2]).convertedX = xData
          /\ ThereAndBack(xData, pair[1], pair[2]).wasConverted

----------------------------------------------------------------------------
(* Peak detection on its own: spectra of up to seven samples, intensities   *)
(* in units of 0.0005 (so the default threshold 0.001 is 2), the data mode  *)
(* named by the YUNITS of the file                                          *)

\* detectDataMode with YUNITS in the metadata: the unit names the mode
detectDataModeFromUnits(yunits) ==
  IF yunits \in {"transmittance", "transmission", "%t", "t"} THEN "transmittance"
  ELSE "absorbance"

\* x of n samples, 1.0 apart
AxisOf(n) == [i \in 1..n |-> 400 * (i - 1)]

\* intensities: every shape of three and of five samples over values below
\* and above the thresholds (0, 0.0005, 0.015, 0.03), the scenario
\* y = [0, 1, 5, 1, 0], and a peak and a valley of seven samples
DetectLevels == {0, 1, 30, 60}
DetectIntensities ==
  [1..3 -> DetectLevels] \cup [1..5 -> DetectLevels]
    \cup {<<0, 2000, 10000, 2000, 0>>, <<0, 10, 20, 50, 20, 10, 0>>,
          <<50, 40, 30, 0, 30, 40, 50>>}

\* well-formed spectra, x taken as it is
DetectSpectra ==
  { [technique |-> t[1], xunits |-> Undefined, yunits |-> t[2],
     wavelengths |-> AxisOf(Len(ys)), intensities |-> ys] :
      t \in {<<"raman", Undefined>>, <<"ir", Some("absorbance")>>,
             <<"ir", Some("transmittance")>>},
      ys \in DetectIntensities }
\* spectra of fewer than three samples
ShortSpectra ==
  { [technique |-> "raman", xunits |-> Undefined, yunits |-> Undefined,
     wavelengths |-> AxisOf(n), intensities |-> [i \in 1..n |-> 1]] : n \in 0..2 }
\* spectra with x in micrometers and a value the conversion drops
DroppedSpectra ==
  { [technique |-> "ir", xunits |-> Some("micrometers"), yunits |-> Some("absorbance"),
     wavelengths |-> <<Dec(0, 0)>> \o [i \in 1..(Len(ys) - 1) |-> Dec(1, 1 - i)],
     intensities |-> ys] :
      ys \in {<<0, 30, 0>>, <<0, 1, 30, 1, 0>>, <<0, 10, 20, 50, 20, 10, 0>>} }

\* peakParams of the component with intensities in units of 0.0005
\* (threshold 0.01, relativeThreshold 0.01), and the slider positions
\* prominence 0.5, width 3, distance 1
DetectParamChoices ==
  { [prominence |-> 5, width |-> 2, distance |-> 5, threshold |-> 2000, relativeThreshold |-> 1],
    [prominence |-> 50, width |-> 3, distance |-> 1, threshold |-> 2000, relativeThreshold |-> 1] }

OpenedForDetection(sp) ==
    /\ spectrum = sp
    /\ processedData = InitialData(sp)
    /\ originalData = InitialData(sp)
    /\ processedDataRef = InitialData(sp)
    /\ baselinePoints = <<>>
    /\ detectedPeaks = <<>>
    /\ selectedPeakForBoundaries = <<>>
    /\ boundaryAdjustmentStep = "null"
    /\ dataMode = IF sp.technique \in ModeTechniques
                    THEN IF IsDefined(sp.yunits) THEN detectDataModeFromUnits(Val(sp.yunits))
                         ELSE detectDataMode(sp.intensities, sp.technique)
                    ELSE "absorbance"
    /\ hasUnsavedChanges = FALSE
    /\ savedAnalyses = [k \in SavedKeys |-> Undefined]
    /\ recalcTimers = {}
    /\ noticePending = FALSE
    /\ loadPending = TRUE
    /\ db = [m \in Methods |-> <<>>]
    /\ clock = 0
    /\ opens = 0
    /\ isProcessing = FALSE
    /\ exportedCSV = <<>>
    /\ baselineParams = DefaultBaselineParams
    /\ lastOp = "other"

InitDetect ==
  \/ \E sp \in DetectSpectra : OpenedForDetection(sp)
  \/ \E sp \in ShortSpectra : OpenedForDetection(sp)
  \/ \E sp \in DroppedSpectra : OpenedForDetection(sp)

NextDetect ==
  \/ \E params \in DetectParamChoices : performPeakDetection(params)
  \/ ClearPeaks

SpecDetect == InitDetect /\ [][NextDetect]_vars

----------------------------------------------------------------------------
(* The peak detectors *)

\* parameter records the detectors are called with: the component's, and
\* the defaults of detectPeaks with prominence 0.1
DefaultParams ==
  [prominence |-> 10, width |-> 2, distance |-> 5, threshold |-> 200, relativeThreshold |-> 5]
WindowSizes == 1..3
SimplifiedParams(windowSize) == [prominence |-> 5, distance |-> 10, windowSize |-> windowSize]

\* C12: on x and y of different lengths or of fewer than three samples
\* detectPeaks returns no peak and does not raise, and on x and y of
\* different lengths or of fewer than 2 * windowSize + 1 samples
\* detectPeaksSimplified returns no peak and does not raise.
C12_MalformedGivesNone ==
  LET x == processedData.x
      y == processedData.y
  IN  /\ (Len(x) # Len(y) \/ Len(x) < 3) =>
           /\ \A params \in DetectParamChoices \cup {DefaultParams} :
                detectPeaks(x, y, params, spectrum.technique, dataMode) = <<>>
           /\ ~MaxSpreadMayRaise(x, y, 3)
      /\ \A windowSize \in WindowSizes :
           (Len(x) # Len(y) \/ Len(x) < 2 * windowSize + 1) =>
             /\ detectPeaksSimplified(x, y, SimplifiedParams(windowSize),
                                      spectrum.technique, dataMode) = <<>>
             /\ ~MaxSpreadMayRaise(x, y, 2 * windowSize + 1)

\* detection has run on x and y of different lengths, seven samples of y
C12_RanOnMalformed ==
  /\ Len(processedData.x) # Len(processedData.y)
  /\ Len(processedData.y) > SpreadLimit
  /\ hasUnsavedChanges
  /\ detectedPeaks = <<>>


\* the peaks detectPeaks returns on the working data in the session's
\* orientation, for the component's parameters and the defaults
DetectedOn(params) ==
  detectPeaks(processedData.x, processedData.y, params, spectrum.technique, dataMode)
WellFormed ==
  Len(processedData.x) = Len(processedData.y) /\ Len(processedData.x) >= 3

\* C13: every peak detectPeaks returns has a prominence of at least
\* prominence_param * (max(y) - min(y)) and a width of at least width_param,
\* in the peak and in the valley orientation.
C13_ProminenceAndWidth ==
  WellFormed =>
    \A params \in DetectParamChoices \cup {DefaultParams} :
      \A i \in 1..Len(DetectedOn(params)) :
        LET peak == DetectedOn(params)[i]
            y == processedData.y
        IN  /\ 100 * peak.prominence >= params.prominence * (SeqMax(y) - SeqMin(y))
            /\ peak.width >= params.width

\* a detection run in the valley orientation has found a valley
C13_ValleyFound ==
  /\ shouldDetectValleys(spectrum.technique, dataMode)
  /\ hasUnsavedChanges
  /\ Len(detectedPeaks) > 0
  /\ \A i \in 1..Len(detectedPeaks) :
        /\ detectedPeaks[i].y = SeqMin(processedData.y)
        /\ IsDefined(detectedPeaks[i].width)


\* y rises strictly to y[k], an interior sample, and falls strictly after it
StrictlyUnimodal(y, k) ==
  /\ 1 < k /\ k < Len(y)
  /\ \A i \in 1..Len(y) : y[i] >= 0
  /\ \A i \in 1..(k - 1) : y[i] < y[i + 1]
  /\ \A i \in k..(Len(y) - 1) : y[i] > y[i + 1]
\* the maximum exceeds both end values by prominence_param * (max(y) - min(y))
ExceedsEnds(y, k, params) ==
  /\ 100 * (y[k] - y[1]) >= params.prominence * (SeqMax(y) - SeqMin(y))
  /\ 100 * (y[k] - y[Len(y)]) >= params.prominence * (SeqMax(y) - SeqMin(y))
\* detectPeaks(x, y, {prominence: 0.1}) returns one peak, at x[k]
OnePeakAt(k) ==
  LET found == detectPeaks(processedData.x, processedData.y, DefaultParams, "", "absorbance")
  IN  Len(found) = 1 /\ found[1].x = processedData.x[k] /\ found[1].y = processedData.y[k]

\* C14 with the absolute threshold: on strictly unimodal non-negative y
\* whose maximum exceeds both ends by the required prominence and is at
\* least the absolute threshold max(threshold, relativeThreshold * max(y)),
\* that is at least 0.001 with the defaults, detectPeaks returns exactly
\* one peak, at the x of the maximum.
C14_OnePeakAboveThreshold ==
  WellFormed =>
    \A k \in 1..Len(processedData.y) :
      (/\ StrictlyUnimodal(processedData.y, k)
       /\ ExceedsEnds(processedData.y, k, DefaultParams)
       /\ 100 * processedData.y[k] >=
            Max2(DefaultParams.threshold,
                 DefaultParams.relativeThreshold * SeqMax(processedData.y)))
        => OnePeakAt(k)

\* detection has run on the scenario y = [0, 1, 5, 1, 0] and found the one
\* peak at the third sample
C14_ScenarioDetected ==
  /\ processedData.y = <<0, 2000, 10000, 2000, 0>>
  /\ OnePeakAt(3)
  /\ hasUnsavedChanges
  /\ Len(detectedPeaks) = 1
  /\ detectedPeaks[1].x = processedData.x[3]

\* C14 as stated: the same for every strictly unimodal non-negative y whose
\* maximum exceeds both ends by the required prominence.
C14_OnePeak ==
  WellFormed =>
    \A k \in 1..Len(processedData.y) :
      (/\ StrictlyUnimodal(processedData.y, k)
       /\ ExceedsEnds(processedData.y, k, DefaultParams))
        => OnePeakAt(k)

----------------------------------------------------------------------------
(* Baseline correction *)

\* C15: a baseline correction, computed or applied from the clicked points,
\* leaves working y of the length of x with no negative value.
C15_CorrectedNotNegative ==
  [][(performBaselineCorrection \/ ApplyManualBaseline) =>
       /\ Len(processedData'.y) = Len(processedData'.x)
       /\ \A i \in 1..Len(processedData'.y) : processedData'.y[i] >= 0]_vars

----------------------------------------------------------------------------
(* The fallback of peak detection *)

\* the peak list the component builds from the result of detectPeaksSimplified
\* on the working data and mode of the moment
SimplifiedOnWorkingData(params) ==
  LET found == detectPeaksSimplified(processedData.x, processedData.y,
                 [prominence |-> params.prominence, distance |-> params.distance,
                  windowSize |-> Max2(3, Len(processedData.x) \div 100)],
                 spectrum.technique, dataMode)
  IN  RenderSort([i \in 1..Len(found) |->
                    NewPeak(found[i].id, found[i].x, found[i].y, Undefined,
                            Some(found[i].prominence))], spectrum.technique)

\* C16: when detectPeaks raises, the peaks of detectPeaksSimplified on the
\* same working data and mode become the peak list; when both raise, the
\* peak list stays as it was; and in every case isProcessing is false when
\* the operation ends.
C16_FallbackOnRaise ==
  [][\A params \in DetectParamChoices, primaryRaises \in BOOLEAN, fallbackRaises \in BOOLEAN :
       PeakDetectionOutcome(params, primaryRaises, fallbackRaises) =>
         /\ isProcessing' = FALSE
         /\ (primaryRaises /\ ~fallbackRaises) =>
               detectedPeaks' = SimplifiedOnWorkingData(params)
         /\ (primaryRaises /\ fallbackRaises) => detectedPeaks' = detectedPeaks]_vars

\* the simplified detector has supplied the peak list of a spectrum too long
\* for Math.max(...y): a peak without a width
C16_FellBack ==
  /\ Len(processedData.y) > SpreadLimit
  /\ Len(detectedPeaks) > 0
  /\ \A i \in 1..Len(detectedPeaks) :
        /\ ~IsDefined(detectedPeaks[i].width)
        /\ detectedPeaks[i].id[1] = "peak"
  /\ hasUnsavedChanges
  /\ ~isProcessing


----------------------------------------------------------------------------
(* Saving and loading again *)

\* a session just opened, before its load of the saved results has landed
FreshlyOpened ==
  /\ loadPending
  /\ detectedPeaks = <<>>
  /\ baselinePoints = <<>>
  /\ processedData.y = spectrum.intensities
  /\ ~hasUnsavedChanges

\* the integration fields a save recorded for the peak with this id
SavedIntegrationOf(store, id) ==
  LET saved == IF "peak_integration" \in LatestMethods(store)
                 THEN Latest(store, "peak_integration").integrated_peaks ELSE <<>>
      matches == {j \in 1..Len(saved) : saved[j].id = id}
      r == saved[CHOOSE j \in matches : TRUE]
  IN  IF matches = {}
        THEN [area |-> Undefined, start |-> Undefined, end |-> Undefined,
              adjusted |-> Undefined]
        ELSE [area |-> r.integration_area, start |-> r.integration_start,
              end |-> r.integration_end, adjusted |-> r.manually_adjusted]

\* C17: when the saved results land in a freshly opened session, in whatever
\* order the records come, the working y, the baseline values and the data
\* mode are the saved ones, and the peak list has exactly the saved peaks,
\* each with its saved x, y, width, prominence, integration area, boundaries
\* and manuallyAdjusted flag.
C17_ReloadRestores ==
  [][\A order \in Orders(LatestMethods(db)) :
       (FreshlyOpened /\ LoadLands(order)) =>
         /\ \A m \in LatestMethods(db) : dataMode' = Latest(db, m).data_mode
         /\ "baseline_correction" \in LatestMethods(db) =>
              LET r == Latest(db, "baseline_correction")
              IN  /\ processedData'.y = r.corrected_intensities
                  /\ [i \in 1..Len(baselinePoints') |-> baselinePoints'[i].y] = r.baseline
         /\ "peak_detection" \in LatestMethods(db) =>
              LET saved == Latest(db, "peak_detection").peaks
              IN  /\ Len(detectedPeaks') = Len(saved)
                  /\ \A i \in 1..Len(saved) :
                       /\ saved[i].id \in PeakIds(detectedPeaks')
                       /\ LET p == PeakById(detectedPeaks', saved[i].id)
                              g == SavedIntegrationOf(db, saved[i].id)
                          IN  /\ p.x = saved[i].position
                              /\ p.y = saved[i].intensity
                              /\ p.width = saved[i].width
                              /\ p.prominence = saved[i].prominence
                              /\ p.integrationArea = g.area
                              /\ p.integrationStart = g.start
                              /\ p.integrationEnd = g.end
                              /\ p.manuallyAdjusted = g.adjusted]_vars


----------------------------------------------------------------------------
(* The data mode switch *)

\* the y values of a sequence of points or peaks
YsOf(points) == [i \in 1..Len(points) |-> points[i].y]
\* a sequence of points or peaks with every y taken out
WithoutY(points) == [i \in 1..Len(points) |-> [points[i] EXCEPT !.y = 0]]

\* C18: a switch to the other mode converts the working y, the original y,
\* every baseline point's y and every peak's y with the same conversion and
\* sets dataMode to the new mode; both x sequences, the other fields of every
\* baseline point and peak (ids and boundaries among them) and their order are
\* unchanged; a switch to the current mode changes nothing of the session.
C18_SwitchConvertsAll ==
  [][\A newMode \in {"absorbance", "transmittance"} :
       handleDataModeChange(newMode) =>
         IF newMode = dataMode
           THEN UNCHANGED <<baselineParams, exportedCSV, isProcessing, spectrum, processedData, originalData,
                            processedDataRef, baselinePoints, detectedPeaks,
                            selectedPeakForBoundaries, boundaryAdjustmentStep, dataMode,
                            hasUnsavedChanges, savedAnalyses, recalcTimers,
                            noticePending, loadPending, db, clock, opens>>
           ELSE /\ dataMode' = newMode
                /\ processedData'.y =
                     convertAbsorbanceTransmittance(processedData.y, dataMode, newMode)
                /\ originalData'.y =
                     convertAbsorbanceTransmittance(originalData.y, dataMode, newMode)
                /\ YsOf(baselinePoints') =
                     convertAbsorbanceTransmittance(YsOf(baselinePoints), dataMode, newMode)
                /\ YsOf(detectedPeaks') =
                     convertAbsorbanceTransmittance(YsOf(detectedPeaks), dataMode, newMode)
                /\ processedData'.x = processedData.x
                /\ originalData'.x = originalData.x
                /\ WithoutY(baselinePoints') = WithoutY(baselinePoints)
                /\ WithoutY(detectedPeaks') = WithoutY(detectedPeaks)]_vars

\* a session switched away from the mode it opened in, with baseline points
\* and a peak that has boundaries
C18_Switched ==
  /\ spectrum.technique \in ModeTechniques
  /\ dataMode # detectDataMode(spectrum.intensities, spectrum.technique)
  /\ originalData.y # spectrum.intensities
  /\ Len(baselinePoints) > 0
  /\ \E i \in 1..Len(detectedPeaks) : HasBoundaries(detectedPeaks[i])


----------------------------------------------------------------------------
(* analysisAlgorithms.ts: absorbance <-> transmittance without rounding.    *)
(* An intensity is either the number v/2 or the power of ten 10^(v/2), so   *)
(* that 10^(-A) * 100 and -log10(T / 100) are exact.                        *)

Halves(v) == [scale |-> "linear", v |-> v]
TenToHalves(v) == [scale |-> "log", v |-> v]

\* 10^(-clampedA) without the factor 100
AbsorbanceToPercentT_Fraction(absorbance) ==
  TenToHalves(0 - Max2(0, Min2(20, absorbance.v)))

\* Math.pow(10, -clampedA) * 100 with clampedA = max(0, min(10, absorbance))
AbsorbanceToPercentT(absorbance) ==
  LET clampedA == Max2(0, Min2(20, absorbance.v))
  IN  TenToHalves(4 - clampedA)

\* -Math.log10(clampedT / 100) with clampedT = max(0.01, min(100, transmittance));
\* a transmittance given as a plain number is zero or negative here
PercentTToAbsorbance(transmittance) ==
  LET clampedT == IF transmittance.scale = "linear" THEN -4
                  ELSE Max2(-4, Min2(4, transmittance.v))
  IN  Halves(4 - clampedT)

convertExactly(yData, fromMode, toMode) ==
  IF fromMode = toMode THEN yData
  ELSE IF fromMode = "absorbance" /\ toMode = "transmittance"
       THEN [i \in 1..Len(yData) |-> AbsorbanceToPercentT(yData[i])]
  ELSE IF fromMode = "transmittance" /\ toMode = "absorbance"
       THEN [i \in 1..Len(yData) |-> PercentTToAbsorbance(yData[i])]
  ELSE yData

\* handleDataModeChange(newMode) in a session without baseline points and peaks
ConvertWorkingData(newMode) ==
  /\ spectrum.technique \in ModeTechniques
  /\ baselinePoints = <<>> /\ detectedPeaks = <<>>
  /\ lastOp' = "other"
  /\ UNCHANGED <<baselineParams, exportedCSV, isProcessing, spectrum, baselinePoints, detectedPeaks,
                 selectedPeakForBoundaries, boundaryAdjustmentStep,
                 hasUnsavedChanges, savedAnalyses, recalcTimers, noticePending,
                 loadPending, db, clock, opens>>
  /\ IF newMode = dataMode
       THEN /\ KeepProcessedData
            /\ UNCHANGED <<originalData, dataMode>>
       ELSE /\ SetProcessedData([processedData EXCEPT
                 !.y = convertExactly(processedData.y, dataMode, newMode)])
            /\ originalData' = [originalData EXCEPT
                 !.y = convertExactly(originalData.y, dataMode, newMode)]
            /\ dataMode' = newMode

\* absorbances -1, 0, 0.5, 2, 4, 4.5, 5, 10 and 12
AbsorbanceValues == {Halves(v) : v \in {-2, 0, 1, 4, 8, 9, 10, 20, 24}}
\* transmittances 0.001, 0.01, 0.0316.., 1, 31.6.., 100 and 1000 percent, 0 and -1
TransmittanceValues ==
  {TenToHalves(v) : v \in {-6, -4, -3, 0, 3, 4, 6}} \cup {Halves(0), Halves(-2)}

\* UV-Vis spectra of one or two samples whose YUNITS name the mode
ModeSpectraOf(yunits, values) ==
  { [technique |-> "uv-vis", xunits |-> Undefined, yunits |-> Some(yunits),
     wavelengths |-> AxisOf(Len(ys)), intensities |-> ys] :
      ys \in UNION {[1..n -> values] : n \in 1..2} }
ModeSpectra ==
  ModeSpectraOf("absorbance", AbsorbanceValues)
    \cup ModeSpectraOf("transmittance", TransmittanceValues)

InitConvert == \E sp \in ModeSpectra : OpenedForDetection(sp)
NextConvert == \E newMode \in {"absorbance", "transmittance"} : ConvertWorkingData(newMode)
SpecConvert == InitConvert /\ [][NextConvert]_vars

----------------------------------------------------------------------------
(* The mode conversion there and back *)

\* the mode the session opened in
OpenedMode == detectDataModeFromUnits(Val(spectrum.yunits))

\* value limited to [low, high] on its own scale; a plain number that is
\* zero or negative is below every power of ten
LimitedTo(value, low, high, mode) ==
  IF mode = "absorbance" THEN Halves(Max2(low, Min2(high, value.v)))
  ELSE IF value.scale = "linear" THEN TenToHalves(low)
  ELSE TenToHalves(Max2(low, Min2(high, value.v)))

\* C19 on the range both directions keep: when a switch brings the session
\* back to the mode it opened in, every working y is the value of the file
\* limited to absorbance [0, 4] or transmittance [0.01, 100]: a value inside
\* the range is returned as it was, a value outside it as the nearer end.
C19_RoundTrip ==
  [][\A newMode \in {"absorbance", "transmittance"} :
       (ConvertWorkingData(newMode) /\ newMode # dataMode /\ newMode = OpenedMode) =>
         \A i \in 1..Len(spectrum.intensities) :
           processedData'.y[i] =
             IF OpenedMode = "absorbance"
               THEN LimitedTo(spectrum.intensities[i], 0, 8, "absorbance")
               ELSE LimitedTo(spectrum.intensities[i], -4, 4, "transmittance")]_vars

\* a session back in the mode it opened in, after a switch away and back:
\* one value of the file lay outside the range and came back as the end of
\* it, another lay strictly inside and came back as it was
C19_ThereAndBack ==
  /\ dataMode = OpenedMode
  /\ Len(processedData.y) = 2
  /\ processedData.y # spectrum.intensities
  /\ \E i \in 1..2 :
       /\ processedData.y[i] = spectrum.intensities[i]
       /\ processedData.y[i].v \notin {-4, 0, 4, 8}

\* C19 as stated: the same with absorbance limited to [0, 10].
C19_RoundTripStated ==
  [][\A newMode \in {"absorbance", "transmittance"} :
       (ConvertWorkingData(newMode) /\ newMode # dataMode /\ newMode = OpenedMode) =>
         \A i \in 1..Len(spectrum.intensities) :
           processedData'.y[i] =
             IF OpenedMode = "absorbance"
               THEN LimitedTo(spectrum.intensities[i], 0, 20, "absorbance")
               ELSE LimitedTo(spectrum.intensities[i], -4, 4, "transmittance")]_vars


----------------------------------------------------------------------------
(* services/api.ts: the CSV export of the peak list.  A field of the file   *)
(* is a text or a number printed with four decimals; none of the texts the  *)
(* export writes holds a comma, a quote or a line break, so no field is     *)
(* quoted.                                                                  *)

Text(s) == [kind |-> "text", text |-> s, number |-> 0]
\* number.toFixed(4); the numbers of the model have at most four decimals
Fixed4(v) == [kind |-> "fixed4", text |-> "", number |-> v]
\* o?.toFixed(4) || ''
FixedOrEmpty(o) == IF IsDefined(o) THEN Fixed4(Val(o)) ELSE Text("")

\* peak.position and peak.intensity: properties the Peak objects of the
\* session do not have read as undefined
PropertyOf(peak, name) == IF name \in DOMAIN peak THEN Some(peak[name]) ELSE Undefined

CSVHeaders ==
  <<Text("Position"), Text("Intensity"), Text("Width"), Text("Prominence"),
    Text("Integration Area"), Text("Integration Start"), Text("Integration End"),
    Text("Manually Adjusted")>>

CSVRow(peak) ==
  <<FixedOrEmpty(PropertyOf(peak, "position")), FixedOrEmpty(PropertyOf(peak, "intensity")),
    FixedOrEmpty(peak.width), FixedOrEmpty(peak.prominence),
    FixedOrEmpty(peak.integrationArea), FixedOrEmpty(peak.integrationStart),
    FixedOrEmpty(peak.integrationEnd),
    Text(IF peak.manuallyAdjusted = Some(TRUE) THEN "Yes" ELSE "No")>>

\* convertPeaksToCSV, as the rows it joins
convertPeaksToCSV(peaks) ==
  IF Len(peaks) = 0 THEN <<<<Text("No peaks data available")>>>>
  ELSE <<CSVHeaders>> \o [i \in 1..Len(peaks) |-> CSVRow(peaks[i])]

\* exportPeaksAsCSV of the component: with no peaks it only shows a notice
exportPeaksAsCSV ==
  /\ Len(detectedPeaks) > 0
  /\ exportedCSV' = convertPeaksToCSV(detectedPeaks)
  /\ lastOp' = "other"
  /\ KeepProcessedData
  /\ UNCHANGED <<baselineParams, isProcessing, spectrum, originalData, baselinePoints, detectedPeaks,
                 selectedPeakForBoundaries, boundaryAdjustmentStep, dataMode,
                 hasUnsavedChanges, savedAnalyses, recalcTimers, noticePending,
                 loadPending, db, clock, opens>>

\* Detection, integration and the boundary adjustment on the ascending
\* spectrum, and the export of the peak list at any moment
NextExport ==
  \/ \E i \in 1..Len(processedData.x) : PlotClick(i, "none")
  \/ \E timer \in recalcTimers : RecalcTimerFires(timer)
  \/ NoticeTimerFires
  \/ \E i \in 1..Len(detectedPeaks) : RowClick(i)
  \/ integrateAllPeaks
  \/ \E params \in PeakParamChoices : performPeakDetection(params)
  \/ exportPeaksAsCSV

SpecExport == InitPersist /\ [][NextExport]_vars

\* C21: the exported file has the header row and then one row per peak of
\* the list, in the list's order; Position and Intensity are the peak's x
\* and y with four decimals, Width, Prominence and the three integration
\* fields are the peak's values with four decimals or empty when not set,
\* and Manually Adjusted is Yes for a set flag and No otherwise.
C21_ExportHoldsPeaks ==
  [][exportPeaksAsCSV =>
       /\ Len(exportedCSV') = Len(detectedPeaks) + 1
       /\ exportedCSV'[1] = CSVHeaders
       /\ \A i \in 1..Len(detectedPeaks) :
            LET row == exportedCSV'[i + 1]
                peak == detectedPeaks[i]
            IN  /\ row[1] = Fixed4(peak.x)
                /\ row[2] = Fixed4(peak.y)
                /\ row[3] = FixedOrEmpty(peak.width)
                /\ row[4] = FixedOrEmpty(peak.prominence)
                /\ row[5] = FixedOrEmpty(peak.integrationArea)
                /\ row[6] = FixedOrEmpty(peak.integrationStart)
                /\ row[7] = FixedOrEmpty(peak.integrationEnd)
                /\ row[8] = Text(IF peak.manuallyAdjusted = Some(TRUE) THEN "Yes" ELSE "No")]_vars


----------------------------------------------------------------------------
(* analysisAlgorithms.ts: the four baseline corrections on y of at most two *)
(* samples.  An intensity is a number or NaN here, because the linear fit   *)
(* divides by x[n-1] - x[0].                                                *)

Num(v) == [nan |-> FALSE, v |-> v]
NaN == [nan |-> TRUE, v |-> 0]
\* a - b
Minus(a, b) == IF a.nan \/ b.nan THEN NaN ELSE Num(a.v - b.v)
\* Math.max(0, a)
MaxZero(a) == IF a.nan THEN NaN ELSE Num(Max2(0, a.v))
\* y.map((val, i) => Math.max(0, val - baseline[i]))
CorrectedBy(y, baseline) == [i \in 1..Len(y) |-> MaxZero(Minus(y[i], baseline[i]))]

Returned(baseline, y) ==
  [raised |-> FALSE, baseline |-> baseline, corrected |-> CorrectedBy(y, baseline)]
Raised == [raised |-> TRUE, baseline |-> <<>>, corrected |-> <<>>]

\* new Matrix(rows, cols): Array(rows) raises a RangeError for a negative length
MatrixRaises(rows, cols) == rows < 0
\* createDifferenceMatrix(n, order): new Matrix(n - order, n)
createDifferenceMatrixRaises(n, order) == MatrixRaises(n - order, n)

\* alsBaselineCorrection for n <= 2.  With two samples D has no rows, D'D is
\* the zero matrix and A = W; with all weights 1 the solver returns b = y
\* after one step (or x = 0 = y at once when y is zero), the baseline equals
\* the previous one and the loop stops.  With a NaN in y every entry of the
\* solver's x is NaN in every iteration.
alsBaselineCorrectionShort(y) ==
  IF createDifferenceMatrixRaises(Len(y), 2) THEN Raised
  ELSE IF \E i \in 1..Len(y) : y[i].nan
         THEN Returned([i \in 1..Len(y) |-> NaN], y)
         ELSE Returned(y, y)

\* alsBaselineCorrectionSimplified for n <= 2: every index is the first or
\* the last one, which each iteration copies
alsBaselineCorrectionSimplifiedShort(y) == Returned(y, y)

\* polynomialBaselineCorrection for n <= 2 and degree > 1: one window, its
\* anchor the first sample no later sample is below (y[j] < minVal is false
\* for NaN), leftI = rightI, so baseline[i] = y[anchor]
polynomialBaselineCorrectionShort(x, y) ==
  LET n == Len(y)
      anchor == IF n = 2 /\ ~y[1].nan /\ ~y[2].nan /\ y[2].v < y[1].v THEN 2 ELSE 1
  IN  Returned([i \in 1..n |-> y[anchor]], y)

\* linearBaselineCorrection for n <= 2: slope = (y[n-1] - y[0]) / (x[n-1] - x[0])
\* is NaN or infinite when the two x are equal (always so for one sample), and
\* then slope * x[i] + intercept is NaN; otherwise the line passes through
\* both samples
linearBaselineCorrectionShort(x, y) ==
  LET n == Len(y)
  IN  IF n = 2 /\ x[1] # x[2] /\ ~y[1].nan /\ ~y[2].nan THEN Returned(y, y)
      ELSE Returned([i \in 1..n |-> NaN], y)

\* the methods of the selector; "als-simplified" is als with useSimplified set
BaselineMethods == {"als", "als-simplified", "polynomial", "linear"}

\* the switch of performBaselineCorrection
BaselineResultShort(method, data) ==
  IF method = "als" THEN alsBaselineCorrectionShort(data.y)
  ELSE IF method = "polynomial" THEN polynomialBaselineCorrectionShort(data.x, data.y)
  ELSE IF method = "linear" THEN linearBaselineCorrectionShort(data.x, data.y)
  ELSE alsBaselineCorrectionSimplifiedShort(data.y)

\* performBaselineCorrection(method, baselineParams) on a spectrum of at most
\* two samples: try, catch (which only logs) and finally
performBaselineCorrectionShort(method) ==
  LET result == BaselineResultShort(method, processedData)
  IN  /\ Len(processedData.y) <= 2
      /\ isProcessing' = FALSE
      /\ lastOp' = "other"
      /\ IF result.raised
           THEN /\ KeepProcessedData
                /\ UNCHANGED <<baselinePoints, hasUnsavedChanges>>
           ELSE /\ SetProcessedData([processedData EXCEPT !.y = result.corrected])
                /\ baselinePoints' = [i \in 1..Len(result.baseline) |->
                                        [x |-> processedData.x[i], y |-> result.baseline[i]]]
                /\ hasUnsavedChanges' = TRUE
      /\ UNCHANGED <<baselineParams, exportedCSV, spectrum, originalData, detectedPeaks,
                     selectedPeakForBoundaries, boundaryAdjustmentStep, dataMode,
                     savedAnalyses, recalcTimers, noticePending, loadPending, db,
                     clock, opens>>

\* spectra of zero, one or two samples; the two samples may share their x
FewSamples ==
  { [technique |-> "raman", xunits |-> Undefined, yunits |-> Undefined,
     wavelengths |-> w, intensities |-> ys] :
      w \in {<<>>, <<0>>, <<0, 400>>, <<0, 0>>},
      ys \in UNION {[1..n -> {Num(0), Num(1), Num(5), Num(9)}] : n \in 0..2} }

InitFew == \E sp \in {s \in FewSamples : Len(s.wavelengths) = Len(s.intensities)} :
             OpenedForDetection(sp)
NextFew ==
  \/ \E method \in BaselineMethods : performBaselineCorrectionShort(method)
  \/ ResetToOriginal
SpecFew == InitFew /\ [][NextFew]_vars

\* C22: on the working data of a spectrum of zero, one or two samples no
\* baseline correction raises: each of the four returns a baseline and a
\* corrected array with as many values as y has.
C22_ShortInputReturns ==
  \A method \in BaselineMethods :
    LET result == BaselineResultShort(method, processedData)
    IN  /\ ~result.raised
        /\ Len(result.baseline) = Len(processedData.y)
        /\ Len(result.corrected) = Len(processedData.y)


----------------------------------------------------------------------------
(* The iteration loops of the ALS fit.  The numbers the solver and the fit  *)
(* compute are not modelled: at which iteration a loop takes one of its     *)
(* breaks, if at any, is an input, and the baseline the fit returns is      *)
(* taken from BaselineIterates.                                             *)

\* for (let iter = 0; iter < maxIterations; iter++) { .. if (..) break; .. }:
\* the number of iterations begun when the break is taken in iteration
\* `stop` (counted from 0), or never if the loop ends before it
RECURSIVE IterationsBegun(_, _, _)
IterationsBegun(iter, maxIterations, stop) ==
  IF iter >= maxIterations THEN iter
  ELSE IF iter = stop THEN iter + 1
  ELSE IterationsBegun(iter + 1, maxIterations, stop)

\* solveLinearSystem: maxIterations = Math.min(n, 50); the breaks are
\* Math.abs(pTAp) < 1e-12 and newRTnewR < 1e-12
solveLinearSystemIterations(n, stop) == IterationsBegun(0, Min2(n, 50), stop)

\* the outer loop of a fit that runs until its break whatever maxIterations is
AlsIterations_UntilConverged(maxIterations, converged) == converged + 1

\* alsBaselineCorrection: the outer loop, with the break maxDiff < 1e-6
AlsIterations(maxIterations, converged) == IterationsBegun(0, maxIterations, converged)

\* alsBaselineCorrectionSimplified: the loop has no break
AlsSimplifiedIterations(maxIterations) == IterationsBegun(0, maxIterations, maxIterations)

\* the baseline a fit returns for y: the level of its minimum stands for it
BaselineIterates(y) == {[i \in 1..Len(y) |-> SeqMin(y)]}

\* the iteration in which a loop breaks; NoBreak and beyond is never
NoBreak == 60
BreakChoices == {0, 19, 49, NoBreak}

\* the Iterations slider (min 5, max 20, step 1) at either end
IterationChoices == {5, 20}

\* onChange of the Iterations slider and of the Use Simplified switch
SetBaselineParams(iterations, useSimplified) ==
  /\ baselineParams' = [iterations |-> iterations, useSimplified |-> useSimplified]
  /\ lastOp' = "other"
  /\ KeepProcessedData
  /\ UNCHANGED <<exportedCSV, isProcessing, spectrum, originalData, baselinePoints,
                 detectedPeaks, selectedPeakForBoundaries, boundaryAdjustmentStep,
                 dataMode, hasUnsavedChanges, savedAnalyses, recalcTimers,
                 noticePending, loadPending, db, clock, opens>>

\* the fit runs the full algorithm
UsesFullAls == ~baselineParams.useSimplified /\ Len(processedData.y) <= 2000

\* performBaselineCorrection('als', baselineParams)
performAlsCorrection(baseline) ==
  LET y == processedData.y
      raised == UsesFullAls /\ createDifferenceMatrixRaises(Len(y), 2)
  IN  /\ baseline \in BaselineIterates(y)
      /\ isProcessing' = FALSE
      /\ lastOp' = "other"
      /\ IF raised
           THEN /\ KeepProcessedData
                /\ UNCHANGED <<baselinePoints, hasUnsavedChanges>>
           ELSE /\ SetProcessedData([processedData EXCEPT
                      !.y = [i \in 1..Len(y) |-> Max2(0, y[i] - baseline[i])]])
                /\ baselinePoints' = [i \in 1..Len(y) |->
                                        [x |-> processedData.x[i], y |-> baseline[i]]]
                /\ hasUnsavedChanges' = TRUE
      /\ UNCHANGED <<baselineParams, exportedCSV, spectrum, originalData, detectedPeaks,
                     selectedPeakForBoundaries, boundaryAdjustmentStep, dataMode,
                     savedAnalyses, recalcTimers, noticePending, loadPending, db,
                     clock, opens>>

\* spectra of three and of sixty samples, one raised sample in the middle
FitSpectra ==
  { [technique |-> "raman", xunits |-> Undefined, yunits |-> Undefined,
     wavelengths |-> AxisOf(n),
     intensities |-> [i \in 1..n |-> IF 2 * i = n \/ 2 * i = n + 1 THEN 5 ELSE 1]] :
      n \in {3, 60} }

\* ALS fits with the parameters of the sliders, saved, and restored by the
\* load of a later opening of the spectrum
InitFit == \E sp \in FitSpectra : OpenedForDetection(sp)
NextFit ==
  \/ \E iterations \in IterationChoices, useSimplified \in BOOLEAN :
       SetBaselineParams(iterations, useSimplified)
  \/ \E baseline \in BaselineIterates(processedData.y) : performAlsCorrection(baseline)
  \/ ResetToOriginal
  \/ saveAllAnalysisResults
  \/ \E order \in Orders(LatestMethods(db)) : LoadLands(order)
  \/ Reopen
SpecFit == InitFit /\ [][NextFit]_vars

----------------------------------------------------------------------------
(* Peak detection on axes that are not one unit per sample *)

\* x of n samples, 2.0 apart
WideAxisOf(n) == [i \in 1..n |-> 800 * (i - 1)]
\* x of n samples 1.0 apart whose first value is there twice
RepeatedAxisOf(n) == [i \in 1..n |-> IF i = 1 THEN 0 ELSE 400 * (i - 2)]

\* five samples of 0 or 0.025, and two spectra of eleven samples with maxima
\* four samples apart
SpacingIntensities ==
  [1..5 -> {0, 50}]
    \cup {<<0, 10, 20, 90, 20, 10, 20, 80, 20, 10, 0>>,
          <<0, 10, 20, 90, 20, 10, 0, 10, 20, 10, 0>>}

SpacingSpectra ==
  { [technique |-> "raman", xunits |-> Undefined, yunits |-> Undefined,
     wavelengths |-> ax[Len(ys)], intensities |-> ys] :
      ax \in {[n \in {5, 11} |-> AxisOf(n)], [n \in {5, 11} |-> WideAxisOf(n)],
              [n \in {5, 11} |-> RepeatedAxisOf(n)]},
      ys \in SpacingIntensities }

\* peakParams with the Distance slider (1 to 30) at 3 and at 5
SpacingParamChoices ==
  { [prominence |-> 5, width |-> 1, distance |-> 3, threshold |-> 2000, relativeThreshold |-> 1],
    [prominence |-> 5, width |-> 1, distance |-> 5, threshold |-> 2000, relativeThreshold |-> 1] }

InitSpacing == \E sp \in SpacingSpectra : OpenedForDetection(sp)
NextSpacing ==
  \/ \E params \in SpacingParamChoices : performPeakDetection(params)
  \/ ClearPeaks
SpecSpacing == InitSpacing /\ [][NextSpacing]_vars

\* the sample index a detector found the peak at (the i of its id)
SampleIndexOf(peak) == peak.id[3]

\* C24: after a detection run, by detectPeaks or by its fallback, any two
\* peaks of the list lie at sample indices that differ by at least the
\* distance parameter of the run.
C24_IndexSeparation ==
  [][\A params \in SpacingParamChoices :
       performPeakDetection(params) =>
         \A i, j \in 1..Len(detectedPeaks') :
           i # j => Abs(SampleIndexOf(detectedPeaks'[i]) - SampleIndexOf(detectedPeaks'[j]))
                      >= params.distance]_vars


----------------------------------------------------------------------------
(* analysisAlgorithms.ts: detectDataMode with the metadata of the file *)

\* yunitsLower.includes('transmittance') || ... || yunitsLower === 't'
NamesTransmittanceUnits(yunits) ==
  \/ Includes(Spelling(yunits), Spelling("transmittance"))
  \/ Includes(Spelling(yunits), Spelling("transmission"))
  \/ Includes(Spelling(yunits), Spelling("%t"))
  \/ yunits = "t"
\* yunitsLower.includes('absorbance') || ... || yunitsLower === 'a'
NamesAbsorbanceUnits(yunits) ==
  \/ Includes(Spelling(yunits), Spelling("absorbance"))
  \/ Includes(Spelling(yunits), Spelling("absorption"))
  \/ yunits = "a"
NamesTransmittanceType(dataType) ==
  \/ Includes(Spelling(dataType), Spelling("transmittance"))
  \/ Includes(Spelling(dataType), Spelling("transmission"))
NamesAbsorbanceType(dataType) ==
  \/ Includes(Spelling(dataType), Spelling("absorbance"))
  \/ Includes(Spelling(dataType), Spelling("absorption"))

\* a metadata field that is there and is not the empty string
TruthyText(field) == IsDefined(field) /\ Val(field) # ""

\* metadata is Undefined or a record of the fields yunits and dataType
detectDataModeWithMetadata(yData, technique, metadata) ==
  IF IsDefined(metadata) /\ TruthyText(Val(metadata).yunits)
       /\ NamesTransmittanceUnits(Val(Val(metadata).yunits))
    THEN "transmittance"
  ELSE IF IsDefined(metadata) /\ TruthyText(Val(metadata).yunits)
       /\ NamesAbsorbanceUnits(Val(Val(metadata).yunits))
    THEN "absorbance"
  ELSE IF IsDefined(metadata) /\ TruthyText(Val(metadata).dataType)
       /\ NamesTransmittanceType(Val(Val(metadata).dataType))
    THEN "transmittance"
  ELSE IF IsDefined(metadata) /\ TruthyText(Val(metadata).dataType)
       /\ NamesAbsorbanceType(Val(Val(metadata).dataType))
    THEN "absorbance"
  ELSE detectDataMode(yData, technique)

\* spectra of two samples with and without the two metadata fields
MetadataChoices ==
  {Undefined}
    \cup { Some([yunits |-> yunits, dataType |-> dataType]) :
             yunits \in {Undefined, Some(""), Some("%t"), Some("a"), Some("counts")},
             dataType \in {Undefined, Some("transmission"), Some("absorption")} }
MetadataSpectra ==
  { [technique |-> technique, xunits |-> Undefined, acquisition_parameters |-> metadata,
     wavelengths |-> AxisOf(2), intensities |-> ys] :
      technique \in {"ir", "infrared", "uv-vis", "raman"},
      metadata \in MetadataChoices,
      ys \in {<<60, 80>>, <<1, 1>>, <<3, 4>>, <<150, 200>>} }

\* the initialising effect on a spectrum with metadata
OpenedWithMetadata(sp) ==
    /\ spectrum = sp
    /\ processedData = InitialData(sp)
    /\ originalData = InitialData(sp)
    /\ processedDataRef = InitialData(sp)
    /\ baselinePoints = <<>>
    /\ detectedPeaks = <<>>
    /\ selectedPeakForBoundaries = <<>>
    /\ boundaryAdjustmentStep = "null"
    /\ dataMode = IF sp.technique \in ModeTechniques
                    THEN detectDataModeWithMetadata(sp.intensities, sp.technique,
                                                    sp.acquisition_parameters)
                    ELSE "absorbance"
    /\ hasUnsavedChanges = FALSE
    /\ savedAnalyses = [k \in SavedKeys |-> Undefined]
    /\ recalcTimers = {}
    /\ noticePending = FALSE
    /\ loadPending = TRUE
    /\ db = [m \in Methods |-> <<>>]
    /\ clock = 0
    /\ opens = 0
    /\ isProcessing = FALSE
    /\ exportedCSV = <<>>
    /\ baselineParams = DefaultBaselineParams
    /\ lastOp = "other"

InitMode == \E sp \in MetadataSpectra : OpenedWithMetadata(sp)
NextMode == \E newMode \in {"absorbance", "transmittance"} : handleDataModeChange(newMode)
SpecMode == InitMode /\ [][NextMode]_vars

\* all values in [low, high]
AllWithin(yData, low, high) == \A i \in 1..Len(yData) : low <= yData[i] /\ yData[i] <= high

\* the mode by the four rules in their order, the metadata rules with the
\* vocabulary of the function
ModeByRuleOrder(yData, technique, metadata) ==
  LET yunits == IF IsDefined(metadata) THEN Val(metadata).yunits ELSE Undefined
      dataType == IF IsDefined(metadata) THEN Val(metadata).dataType ELSE Undefined
  IN  IF TruthyText(yunits) /\ NamesTransmittanceUnits(Val(yunits)) THEN "transmittance"
      ELSE IF TruthyText(yunits) /\ NamesAbsorbanceUnits(Val(yunits)) THEN "absorbance"
      ELSE IF TruthyText(dataType) /\ NamesTransmittanceType(Val(dataType)) THEN "transmittance"
      ELSE IF TruthyText(dataType) /\ NamesAbsorbanceType(Val(dataType)) THEN "absorbance"
      ELSE IF AllWithin(yData, 0, 100) /\ SeqSum(yData) > 50 * Len(yData) THEN "transmittance"
      ELSE IF AllWithin(yData, 0, 5) /\ SeqSum(yData) < 2 * Len(yData) THEN "absorbance"
      ELSE IF technique \in {"ir", "infrared"} THEN "transmittance"
      ELSE "absorbance"

\* C25: detectDataMode returns the mode of the first rule that applies:
\* YUNITS metadata, then the data-type metadata, then the value-range
\* heuristic, then the technique default (transmittance for 'ir' and
\* 'infrared', absorbance for every other technique).
C25_FirstApplicableRule ==
  detectDataModeWithMetadata(spectrum.intensities, spectrum.technique,
                             spectrum.acquisition_parameters)
    = ModeByRuleOrder(spectrum.intensities, spectrum.technique,
                      spectrum.acquisition_parameters)


----------------------------------------------------------------------------
(* analysisAlgorithms.ts: the target unit of a technique *)

\* the unit of getStandardXAxisUnit
getStandardXAxisUnit(technique) ==
  IF technique \in {"ir", "infrared"} THEN "wavenumbers"
  ELSE IF technique = "raman" THEN "wavenumbers"
  ELSE IF technique \in {"uv-vis", "uv", "vis"} THEN "nanometers"
  ELSE IF technique = "libs" THEN "nanometers"
  ELSE "unknown"

\* spectra of two samples of five techniques, with and without XUNITS
TargetSpectra ==
  { [technique |-> t, xunits |-> u, yunits |-> Undefined, wavelengths |-> w,
     intensities |-> <<60, 80>>] :
      t \in {"ir", "infrared", "raman", "uv-vis", "libs"},
      u \in {Undefined} \cup {Some(n) : n \in XUnits},
      w \in [1..2 -> {Dec(5, -1), Dec(2, 0), Dec(1, 1)}] }

InitTarget == \E sp \in TargetSpectra : OpenedForDetection(sp)
NextTarget ==
  \/ \E sp \in TargetSpectra : InitialiseData(sp)
  \/ ResetToOriginal
SpecTarget == InitTarget /\ [][NextTarget]_vars

\* C26: converting the x of the opened spectrum without a target unit gives
\* what converting to the unit of its technique gives (wavenumbers for IR
\* and Raman, nanometers for UV-Vis and LIBS), and when that pair of units
\* has no rule the x values come back unchanged and wasConverted is false.
C26_TargetByTechnique ==
  IsDefined(spectrum.xunits) =>
    LET fromUnit == Val(spectrum.xunits)
        target == getStandardXAxisUnit(spectrum.technique)
        result == convertWavelengthUnits(spectrum.wavelengths, fromUnit, Undefined,
                                         spectrum.technique)
    IN  /\ result = convertWavelengthUnits(spectrum.wavelengths, fromUnit, Some(target),
                                           spectrum.technique)
        /\ <<fromUnit, target>> \notin UnitPairs =>
             /\ result.convertedX = spectrum.wavelengths
             /\ ~result.wasConverted


----------------------------------------------------------------------------
(* The peak selected for boundary adjustment *)

\* C27: whenever a peak is selected for boundary adjustment, its id is the
\* id of a peak of the list that has an integration result, and a pending
\* adjustment step exists only while a peak is selected.
C27_SelectionPointsAtIntegratedPeak ==
  /\ IsDefined(selectedPeakForBoundaries) =>
       /\ Val(selectedPeakForBoundaries) \in PeakIds(detectedPeaks)
       /\ IsDefined(PeakById(detectedPeaks, Val(selectedPeakForBoundaries)).integrationArea)
  /\ boundaryAdjustmentStep # "null" => IsDefined(selectedPeakForBoundaries)


----------------------------------------------------------------------------
(* Starting and cancelling a boundary adjustment: the session with one      *)
(* manually placed peak that Integrate All Peaks has integrated, then row   *)
(* clicks, plot clicks and Cancel Adjustment                                *)

\* the peak as integrateAllPeaks leaves it when it has no boundaries yet
FirstIntegration(peak, data) ==
  IntegratedPeak(NewPeak(peak.id, peak.x, peak.y, peak.width, peak.prominence), data)

InitCancel ==
  \E sp \in {s \in Spectra : s.technique = "raman"}, i \in 1..3 :
    LET data == [x |-> sp.wavelengths, y |-> sp.intensities]
        placed == NewPeak(<<"manual_peak", 0>>, data.x[i], data.y[i], Undefined, Some(0))
    IN  /\ spectrum = sp
        /\ processedData = data
        /\ originalData = data
        /\ processedDataRef = data
        /\ baselinePoints = <<>>
        /\ detectedPeaks = <<FirstIntegration(placed, data)>>
        /\ selectedPeakForBoundaries = <<>>
        /\ boundaryAdjustmentStep = "null"
        /\ dataMode = "absorbance"
        /\ hasUnsavedChanges = TRUE
        /\ savedAnalyses = [k \in SavedKeys |-> Undefined]
        /\ recalcTimers = {}
        /\ noticePending = FALSE
        /\ loadPending = FALSE
        /\ db = [m \in Methods |-> <<>>]
        /\ clock = 1
        /\ opens = 0
        /\ isProcessing = FALSE
        /\ exportedCSV = <<>>
        /\ baselineParams = DefaultBaselineParams
        /\ lastOp = "other"

NextCancel ==
  \/ \E i \in 1..Len(processedData.x) : PlotClick(i, "none")
  \/ \E i \in 1..Len(detectedPeaks) : RowClick(i)
  \/ CancelAdjustment

SpecCancel == InitCancel /\ [][NextCancel]_vars

\* C28: right after Cancel Adjustment, when no second click was accepted
\* since the peak was integrated (no recomputation is scheduled), the
\* peak's integrationStart, integrationEnd, integrationArea and
\* manuallyAdjusted are what they were before it was selected.
C28_CancelRestores ==
  (lastOp = "CancelAdjustment" /\ recalcTimers = {}) =>
    \A i \in 1..Len(detectedPeaks) :
      IntegrationRecord(detectedPeaks[i])
        = IntegrationRecord(FirstIntegration(detectedPeaks[i], processedData))


----------------------------------------------------------------------------
(* Unsaved changes *)

\* the analysis results of the session: the working y, the baseline points
\* and the peak list with its integration fields
AnalysisResults == <<processedData.y, baselinePoints, detectedPeaks>>

\* C29: every step of the session that changes the analysis results, other
\* than the arrival of the saved results, leaves hasUnsavedChanges true.
C29_ChangesSetUnsaved ==
  [][(/\ AnalysisResults' # AnalysisResults
      /\ ~ \E order \in Orders(LatestMethods(db)) : LoadLands(order))
       => hasUnsavedChanges']_vars


----------------------------------------------------------------------------
(* Saving again *)

\* the session holds a record of method m, from a load or from a save
HoldsRecordOf(m) ==
  IsDefined(savedAnalyses[m]) \/ IsDefined(savedAnalyses[CamelKey(m)])

\* C30: a save writes no new record for a method whose analysis this
\* session has already loaded or saved: the store holds as many records of
\* that method after the save as before it.
C30_SaveUpdatesExisting ==
  [][saveAllAnalysisResults =>
       \A m \in Methods :
         (SavesMethod(m) /\ HoldsRecordOf(m)) => Len(db'[m]) = Len(db[m])]_vars

====
